---- MODULE Spec2Model ----
(***************************************************************************)
(* Model of the client-side scripts of the documentation site:             *)
(*   - the main site script (two DOMContentLoaded handlers in one file:    *)
(*     doc-panel switching, dropdown, hash handling, persisted <details>   *)
(*     state, "torna su" button, always-light theme),                      *)
(*   - the older site script SITO/script.js (two-panel showDocPanel),      *)
(*   - the accessible site script SITO ACCESSIBILE/script.js (collapsible  *)
(*     folders, screen-reader announcer, remembered theme).                *)
(* The page markup is not part of the scripts: it is drawn in Init from a  *)
(* small set of page layouts and attribute values.                         *)
(* The repository scripts are modelled next to them: the manual deploy     *)
(* script assets/deploy-ghpages.ps1 and the branch auto-update workflow.   *)
(***************************************************************************)
EXTENDS Integers, Sequences, FiniteSets, TLC

VARIABLES
    page,      \* which script runs: "main", "sito" or "acc"; "none" for no page
    job,       \* run of a repository script: the deploy script or the workflow
    phase,     \* "loading" before DOMContentLoaded, "ready" after
    dom,       \* static structure and markup of the page (never changes)
    ui,        \* doc panels, doc toggles, dropdown, viewport, focus, event log
    wired,     \* listeners registered so far
    thrown,    \* an exception escaped a DOMContentLoaded handler
    storage,   \* localStorage: entries "detailsState" and "theme"
    det,       \* <details> elements: open flags, pending timers and events
    tema,      \* always-light theme of the main site
    torna,     \* "torna su" button of the main site
    fold,      \* folder sections of the accessible site, focus, event log
    ann,       \* screen-reader announcer of the accessible site
    theme      \* remembered theme of the accessible site

vars == <<page, job, phase, dom, ui, wired, thrown, storage, det, tema, torna, fold, ann, theme>>

----------------------------------------------------------------------------
(* Bounds of the model *)

\* pending announcer timers a state may hold
MaxAnnTimers == 2

----------------------------------------------------------------------------
(* Names and values *)

\* JavaScript null, as returned by getAttribute for a missing attribute
NULL == "<null>"

\* no repository script is running
NoJob == [kind |-> "none"]

\* string conversion of a value in 'panel-' + name
NameStr(n) == IF n = NULL THEN "null" ELSE n

\* the panel names checkHashOnLoad knows
KnownHashes == {"candidatura", "diapositive", "rtb"}

\* id of the panel element of a name
PanelId(name) == "panel-" \o NameStr(name)

\* truthiness of a string-or-null value
Truthy(v) == v # NULL /\ v # ""

AttrOf(b) == IF b THEN "true" ELSE "false"

----------------------------------------------------------------------------
(* Page layouts: the elements the markup provides *)

Link(h, d, i) == [href |-> h, doc |-> d, item |-> i]

\* doc-panel part of a page; titleY is the document position of the
\* '#candidatura .page-title' element, headerH the height of <header>
DocFull ==
    [ panels  |-> {"panel-candidatura", "panel-diapositive", "panel-rtb"},
      toggles |-> {"candidatura", "diapositive", "rtb", "altro", NULL},
      links   |-> { Link("candidatura", NULL, FALSE), Link("rtb", "rtb", FALSE),
                    Link("candidatura", "altro", FALSE), Link("assente", "rtb", FALSE),
                    Link("assente", NULL, FALSE),
                    Link("candidatura", "candidatura", TRUE),
                    Link("candidatura", "diapositive", TRUE),
                    Link("candidatura", "rtb", TRUE), Link("contatti", NULL, TRUE) },
      ids     |-> {"candidatura", "contatti", "rtb"},
      hasTitle |-> TRUE, hasHeader |-> TRUE, hasDropdown |-> TRUE,
      titleY |-> 640, headerH |-> 80, maxScroll |-> 2000 ]

DocTwoPanels ==
    [ panels  |-> {"panel-candidatura", "panel-diapositive"},
      toggles |-> {"candidatura", "diapositive"},
      links   |-> { Link("candidatura", NULL, FALSE), Link("candidatura", "diapositive", FALSE),
                    Link("candidatura", "rtb", TRUE), Link("assente", "diapositive", FALSE),
                    Link("assente", "diapositive", TRUE) },
      ids     |-> {"candidatura"},
      hasTitle |-> TRUE, hasHeader |-> FALSE, hasDropdown |-> TRUE,
      titleY |-> 100, headerH |-> 0, maxScroll |-> 2000 ]

DocNoDefault ==
    [ panels  |-> {"panel-diapositive", "panel-rtb"},
      toggles |-> {"diapositive", "rtb", "altro"},
      links   |-> { Link("contatti", NULL, FALSE), Link("contatti", "candidatura", FALSE) },
      ids     |-> {"contatti"},
      hasTitle |-> FALSE, hasHeader |-> TRUE, hasDropdown |-> FALSE,
      titleY |-> 0, headerH |-> 80, maxScroll |-> 2000 ]

DocBare ==
    [ panels  |-> {}, toggles |-> {},
      links   |-> { Link("contatti", NULL, FALSE), Link("contatti", "rtb", FALSE) },
      ids     |-> {"contatti"},
      hasTitle |-> FALSE, hasHeader |-> FALSE, hasDropdown |-> FALSE,
      titleY |-> 0, headerH |-> 0, maxScroll |-> 2000 ]

DocLayouts == {DocFull, DocTwoPanels, DocNoDefault, DocBare}

\* <details> part of a page: the key of each element in document order
\* (its id, else the trimmed text of its summary, "" when it has neither)
DetailsLayouts == { <<"verbali", "norme">>, <<"verbali", "", "verbali">>, <<"">>, <<>> }

\* folder part of the accessible page: per data-folder key, whether the
\* content region '<key>-content' and the '.toggle-icon' exist, and whether
\* the content holds a link, and whether a button (or another element with
\* a tabindex, such as the header of a subfolder) comes before its first
\* link; order is the document order of the headers
FolderLayouts ==
    { [ order |-> <<"verbali", "orfana", "norme">>, keys |-> {"verbali", "norme", "orfana"},
        content |-> {"verbali", "norme"}, icon |-> {"verbali"}, links |-> {"verbali"},
        buttons |-> {} ],
      [ order |-> <<"verbali">>, keys |-> {"verbali"},
        content |-> {"verbali"}, icon |-> {"verbali"}, links |-> {"verbali"},
        buttons |-> {"verbali"} ],
      [ order |-> <<"orfana">>, keys |-> {"orfana"},
        content |-> {}, icon |-> {"orfana"}, links |-> {}, buttons |-> {} ] }

----------------------------------------------------------------------------
(* Doc panels: showDocPanel and the listeners that call it *)

\* fallback header height and padding of scrollToElement
FallbackHeaderHeight == 110
TitlePadding == 12

\* document position of the element a fragment resolves to
TargetY(frag) == IF frag = "candidatura" THEN 600 ELSE IF frag = "rtb" THEN 1200 ELSE 1500

Clamp(y) == IF y < 0 THEN 0 ELSE IF y > dom.doc.maxScroll THEN dom.doc.maxScroll ELSE y

\* document.getElementById
getElementById(id) == id \in dom.doc.panels \/ id \in dom.doc.ids

\* the dropdown items: links with class dropdown-item inside .dropdown
dropdownItems == IF dom.doc.hasDropdown THEN {l \in dom.doc.links : l.item} ELSE {}

\* window.scrollTo({top: y}) and element.scrollIntoView(): the viewport
\* moves and the operation is recorded in the log of the current event
scrollTo(w, kind, y) ==
    [w EXCEPT !.scrollY = Clamp(y), !.scrolls = Append(@, [kind |-> kind, y |-> Clamp(y)])]

\* scrollToElement that leaves out the padding below the header
scrollToElementNoPadding(w, present) ==
    IF ~present THEN w
    ELSE LET headerHeight == IF dom.doc.hasHeader THEN dom.doc.headerH ELSE FallbackHeaderHeight
             y == dom.doc.titleY - headerHeight
         IN  scrollTo(w, "title", y)

scrollToElement(w, present) ==
    IF ~present THEN w
    ELSE LET headerHeight == IF dom.doc.hasHeader THEN dom.doc.headerH ELSE FallbackHeaderHeight
             y == dom.doc.titleY - (headerHeight + TitlePadding)
         IN  scrollTo(w, "title", y)

\* a panel switch that shows the new panel without hiding the others
ActivatePanelKeepOthers(w, name) ==
    LET panelId == PanelId(name)
        shown   == IF getElementById(panelId) THEN {panelId}
                   ELSE IF getElementById("panel-candidatura") THEN {"panel-candidatura"}
                   ELSE {}
    IN  [w EXCEPT !.active = @ \cup shown,
                  !.hidden = [p \in dom.doc.panels |-> IF p \in shown THEN "false" ELSE @[p]]]

\* a panel switch without the fallback to 'panel-candidatura'
ActivatePanelNoFallback(w, name) ==
    LET panelId == PanelId(name)
        shown   == IF getElementById(panelId) THEN {panelId} ELSE {}
    IN  [w EXCEPT !.active = shown,
                  !.hidden = [p \in dom.doc.panels |-> IF p \in shown THEN "false" ELSE "true"]]

\* the panel part of showDocPanel: hide all, show 'panel-' + name or the fallback
ActivatePanel(w, name) ==
    LET panelId == PanelId(name)
        shown   == IF getElementById(panelId) THEN {panelId}
                   ELSE IF getElementById("panel-candidatura") THEN {"panel-candidatura"}
                   ELSE {}
    IN  [w EXCEPT !.active = shown,
                  !.hidden = [p \in dom.doc.panels |-> IF p \in shown THEN "false" ELSE "true"]]

\* the toggle part of showDocPanel
UpdateToggles(w, name) ==
    [w EXCEPT !.tActive = {t \in dom.doc.toggles : t = name},
              !.tSel    = [t \in dom.doc.toggles |-> AttrOf(t = name)]]

\* scroll to the "Documentazione" title and focus it
FocusTitle(w) ==
    LET w1 == scrollToElement(w, dom.doc.hasTitle)
    IN  IF dom.doc.hasTitle THEN [w1 EXCEPT !.focus = "docTitle"] ELSE w1

\* showDocPanel of the first DOMContentLoaded handler of the main script
showDocPanel1(w, name) ==
    LET w1 == ActivatePanel([w EXCEPT !.calls = Append(@, name)], name)
        w2 == UpdateToggles(w1, name)
    IN  FocusTitle(w2)

\* a showDocPanel that flips the class of the matching toggle instead of
\* setting it
showDocPanelFlipToggle(w, name) ==
    LET w1 == ActivatePanel([w EXCEPT !.calls = Append(@, name)], name)
        on == (w1.tActive \ {name}) \cup (({name} \cap dom.doc.toggles) \ w1.tActive)
        w2 == [w1 EXCEPT !.tActive = on,
                         !.tSel = [t \in dom.doc.toggles |-> AttrOf(t \in on)]]
        w3 == [w2 EXCEPT !.iActive = {it \in dropdownItems : it.doc = name}]
    IN  FocusTitle(w3)

\* showDocPanel of the second DOMContentLoaded handler of the main script
showDocPanel(w, name) ==
    LET w1 == ActivatePanel([w EXCEPT !.calls = Append(@, name)], name)
        w2 == UpdateToggles(w1, name)
        w3 == [w2 EXCEPT !.iActive = {it \in dropdownItems : it.doc = name}]
    IN  FocusTitle(w3)

\* showDocPanel of SITO/script.js: only 'diapositive' and 'candidatura'
showDocPanelSito(w, name) ==
    LET shownName == IF name = "diapositive" THEN "diapositive" ELSE "candidatura"
        panelId == PanelId(shownName)
        shown   == IF getElementById(panelId) THEN {panelId} ELSE {}
    IN  [w EXCEPT !.calls   = Append(@, name),
                  !.active  = shown,
                  !.hidden  = [p \in dom.doc.panels |-> IF p \in shown THEN "false" ELSE "true"],
                  !.tActive = {t \in dom.doc.toggles : t = shownName},
                  !.tSel    = [t \in dom.doc.toggles |-> AttrOf(t = shownName)]]

\* an anchor listener without the early return after showDocPanel: a link
\* with a document-name switches the panel and then scrolls to its target
AnchorListenerNoReturn(w, l, which) ==
    IF ~getElementById(l.href) THEN w
    ELSE LET w1 == IF ~Truthy(l.doc) THEN w
                   ELSE IF which = 1 THEN showDocPanel1([w EXCEPT !.prevented = TRUE], l.doc)
                                     ELSE showDocPanel([w EXCEPT !.prevented = TRUE], l.doc)
         IN  scrollTo([w1 EXCEPT !.prevented = TRUE], "target", TargetY(l.href))

\* click listener on a[href^="#"] of the main script; which = 1 or 2 names
\* the DOMContentLoaded handler that registered it
AnchorListener(w, l, which) ==
    IF ~getElementById(l.href) THEN w
    ELSE IF Truthy(l.doc)
         THEN IF which = 1 THEN showDocPanel1([w EXCEPT !.prevented = TRUE], l.doc)
                           ELSE showDocPanel([w EXCEPT !.prevented = TRUE], l.doc)
         ELSE scrollTo([w EXCEPT !.prevented = TRUE], "target", TargetY(l.href))

\* click listener on a[href^="#"] of SITO/script.js
AnchorListenerSito(w, l) ==
    IF ~getElementById(l.href) THEN w
    ELSE LET w1 == scrollTo([w EXCEPT !.prevented = TRUE], "target", TargetY(l.href))
         IN  IF Truthy(l.doc) THEN showDocPanelSito(w1, l.doc) ELSE w1

\* click listener on a dropdown item
ItemListener(w, l) ==
    LET w1 == [w EXCEPT !.prevented = TRUE]
        w2 == IF Truthy(l.doc) THEN showDocPanel(w1, l.doc) ELSE w1
    IN  [w2 EXCEPT !.ddOpen = FALSE]

ItemListenerSito(w, l) ==
    LET w1 == IF Truthy(l.doc) THEN showDocPanelSito(w, l.doc) ELSE w
    IN  [w1 EXCEPT !.ddOpen = FALSE]

\* click listener on document: a click outside the dropdown closes it
DocumentClickListener(w, inside) ==
    IF inside THEN w ELSE [w EXCEPT !.ddOpen = FALSE, !.ddExp = "false"]

\* a fragment check whose list of names lacks 'diapositive'
checkHashOnLoadShortList(w) ==
    IF Truthy(w.hash) /\ w.hash \in KnownHashes \ {"diapositive"} THEN showDocPanel(w, w.hash) ELSE w

\* a fragment check that passes every non-empty fragment to showDocPanel
checkHashOnLoadAnyHash(w) ==
    IF Truthy(w.hash) THEN showDocPanel(w, w.hash) ELSE w

\* checkHashOnLoad: also the hashchange listener
checkHashOnLoad(w) ==
    IF Truthy(w.hash) /\ w.hash \in KnownHashes THEN showDocPanel(w, w.hash) ELSE w

\* the default action of a click on a link the listeners did not prevent:
\* the browser navigates to the fragment and queues a hashchange event
DefaultNavigation(w, l) ==
    IF w.prevented THEN w
    ELSE [w EXCEPT !.hash = l.href, !.hashEvt = @ \/ (l.href # w.hash)]

\* a new event starts with an empty log
StartEvent(w, e) ==
    [w EXCEPT !.evt = e, !.calls = <<>>, !.scrolls = <<>>, !.prevented = FALSE]

----------------------------------------------------------------------------
(* Persisted <details> state of the main script *)

\* a localStorage value: kind "absent" (getItem gives null), "empty" (""),
\* "invalid" (not JSON), "null", "num", or "obj" with the properties of the
\* JSON text in order, values being JSON literals as text
Raw(kind, pairs) == [kind |-> kind, pairs |-> pairs]

\* value of property key of a parsed JSON object: the last property of
\* that name wins; "undefined" when there is none
RECURSIVE Lookup(_, _)
Lookup(pairs, key) ==
    IF pairs = <<>> THEN "undefined"
    ELSE IF pairs[Len(pairs)][1] = key THEN pairs[Len(pairs)][2]
    ELSE Lookup(SubSeq(pairs, 1, Len(pairs) - 1), key)

\* obj[key] = val on an object given by its properties in insertion order
SetProp(pairs, key, val) ==
    IF \E i \in 1..Len(pairs) : pairs[i][1] = key
    THEN [i \in 1..Len(pairs) |-> IF pairs[i][1] = key THEN <<key, val>> ELSE pairs[i]]
    ELSE Append(pairs, <<key, val>>)

\* the object saveDetailsState builds from details 1..n
RECURSIVE DetailsObject(_, _)
DetailsObject(open, n) ==
    IF n = 0 THEN <<>>
    ELSE LET rest == DetailsObject(open, n - 1)
             id   == dom.details[n]
         IN  IF Truthy(id) THEN SetProp(rest, id, AttrOf(open[n])) ELSE rest

\* saveDetailsState: the value written to localStorage 'detailsState'
saveDetailsState(open) == Raw("obj", DetailsObject(open, Len(dom.details)))

\* the details elements restoreDetailsState visits before it returns or throws
KeyedDetails == {i \in 1..Len(dom.details) : Truthy(dom.details[i])}

\* restoreDetailsState that sets no timer
restoreDetailsStateNoTimers(raw) ==
    IF raw.kind \in {"absent", "empty"} THEN [threw |-> FALSE, timers |-> {}]
    ELSE IF raw.kind = "invalid" THEN [threw |-> TRUE, timers |-> {}]
    ELSE IF raw.kind = "null" THEN [threw |-> KeyedDetails # {}, timers |-> {}]
    ELSE [threw |-> FALSE, timers |-> {}]

\* restoreDetailsState: whether it throws and the timers it sets
restoreDetailsState(raw) ==
    IF raw.kind \in {"absent", "empty"} THEN [threw |-> FALSE, timers |-> {}]
    ELSE IF raw.kind = "invalid" THEN [threw |-> TRUE, timers |-> {}]
    ELSE IF raw.kind = "null" THEN [threw |-> KeyedDetails # {}, timers |-> {}]
    ELSE [threw |-> FALSE,
          timers |-> {i \in KeyedDetails : Lookup(raw.pairs, dom.details[i]) = "true"}]

----------------------------------------------------------------------------
(* Theme and "torna su" button of the main script *)

\* applicaTema
applicaTema(t, nuovo) ==
    IF nuovo = "dark"
    THEN [dark |-> TRUE,  icon |-> IF dom.hasTemaIcon THEN "sole" ELSE t.icon,
          btnDark |-> dom.hasTema]
    ELSE [dark |-> FALSE, icon |-> IF dom.hasTemaIcon THEN "luna" ELSE t.icon,
          btnDark |-> FALSE]

\* cambiaTema
cambiaTema(t) ==
    LET temaAttuale == IF t.dark THEN "dark" ELSE "light"
        nuovoTema   == IF temaAttuale = "dark" THEN "light" ELSE "dark"
    IN  applicaTema(t, nuovoTema)

\* scroll position above which the button is shown
TornaSuThreshold == 300

\* mostraTornaSuBtn: it dereferences tornaSuBtn without a test, so it
\* throws a TypeError when the page has no such element
mostraTornaSuBtn(b, scrollY) ==
    IF ~dom.hasTornaSu THEN [b EXCEPT !.threw = TRUE]
    ELSE IF scrollY > TornaSuThreshold
    THEN [b EXCEPT !.display = "flex", !.timers = Append(@, "show")]
    ELSE [b EXCEPT !.visible = FALSE, !.timers = Append(@, "hide")]

----------------------------------------------------------------------------
(* DOMContentLoaded of the main script and of SITO/script.js *)

\* listeners the second handler registers before restoreDetailsState
WiredBeforeRestore ==
    {"anchors1", "toggles1", "anchors2", "toggles2", "hashchange"}
        \cup (IF dom.doc.hasDropdown THEN {"items", "dropdown"} ELSE {})

\* the registrations after restoreDetailsState without the tests
\* 'if (tornaSuBtn)' and 'if (temaToggleBtn)'
WiredAfterRestoreUnguarded ==
    {"detailsToggle", "tornaSu", "tema"}

\* listeners it registers after restoreDetailsState
WiredAfterRestore ==
    {"detailsToggle"} \cup (IF dom.hasTornaSu THEN {"tornaSu"} ELSE {})
                      \cup (IF dom.hasTema THEN {"tema"} ELSE {})

\* a load of the main script that applies the stored theme, as the
\* accessible site does
LoadMainStoredTheme ==
    /\ page = "main" /\ phase = "loading"
    /\ LET w == checkHashOnLoad(StartEvent(ui, <<"load">>))
           r == restoreDetailsState(storage.details)
       IN  /\ ui' = [w EXCEPT !.mainLive = dom.hasMain]
           /\ thrown' = r.threw
           /\ det' = [det EXCEPT !.timers = r.timers, !.atLoad = storage.details, !.last = "load"]
           /\ IF r.threw
              THEN /\ wired' = WiredBeforeRestore
                   /\ UNCHANGED <<tema, torna>>
              ELSE /\ wired' = WiredBeforeRestore \cup WiredAfterRestore
                   /\ torna' = IF "tornaSu" \in WiredAfterRestore
                               THEN mostraTornaSuBtn(torna, w.scrollY) ELSE torna
                   /\ tema' = applicaTema(tema, IF Truthy(storage.theme) THEN storage.theme ELSE "light")
    /\ phase' = "ready"
    /\ UNCHANGED <<page, job, dom, storage, fold, ann, theme>>

LoadMain ==
    /\ page = "main" /\ phase = "loading"
    /\ LET w == checkHashOnLoad(StartEvent(ui, <<"load">>))
           r == restoreDetailsState(storage.details)
       IN  /\ ui' = [w EXCEPT !.mainLive = dom.hasMain]
           /\ thrown' = r.threw
           /\ det' = [det EXCEPT !.timers = r.timers, !.atLoad = storage.details, !.last = "load"]
           /\ IF r.threw
              THEN /\ wired' = WiredBeforeRestore
                   /\ UNCHANGED <<tema, torna>>
              ELSE /\ wired' = WiredBeforeRestore \cup WiredAfterRestore
                   /\ torna' = IF "tornaSu" \in WiredAfterRestore
                               THEN mostraTornaSuBtn(torna, w.scrollY) ELSE torna
                   /\ tema' = applicaTema(tema, "light")
    /\ phase' = "ready"
    /\ UNCHANGED <<page, job, dom, storage, fold, ann, theme>>

LoadSito ==
    /\ page = "sito" /\ phase = "loading"
    /\ ui' = [StartEvent(ui, <<"load">>) EXCEPT !.mainLive = dom.hasMain]
    /\ wired' = {"anchorsSito", "togglesSito"}
                   \cup (IF dom.doc.hasDropdown THEN {"itemsSito", "dropdown"} ELSE {})
    /\ phase' = "ready"
    /\ UNCHANGED <<page, job, dom, thrown, storage, det, tema, torna, fold, ann, theme>>

----------------------------------------------------------------------------
(* Events on the doc panels, the links and the dropdown *)

Others == <<page, job, phase, dom, wired, thrown, storage, det, tema, torna, fold, ann, theme>>

\* run a listener only when it has been registered
On(name, w, result) == IF name \in wired THEN result ELSE w

\* click on a link a[href^="#"]; a dropdown item is inside the dropdown
LinkClick(l) ==
    /\ phase = "ready" /\ page \in {"main", "sito"}
    /\ l \in dom.doc.links
    /\ LET w0 == StartEvent(ui, <<"link", l>>)
           w1 == On("anchors1", w0, AnchorListener(w0, l, 1))
           w2 == On("anchors2", w1, AnchorListener(w1, l, 2))
           w3 == On("anchorsSito", w2, AnchorListenerSito(w2, l))
           w4 == IF l \in dropdownItems THEN On("items", w3, ItemListener(w3, l)) ELSE w3
           w5 == IF l \in dropdownItems THEN On("itemsSito", w4, ItemListenerSito(w4, l)) ELSE w4
           w6 == On("dropdown", w5, DocumentClickListener(w5, l \in dropdownItems))
       IN  ui' = DefaultNavigation(w6, l)
    /\ UNCHANGED Others

\* click on a .doc-toggle button (outside the dropdown)
ToggleClick(t) ==
    /\ phase = "ready" /\ page \in {"main", "sito"}
    /\ t \in dom.doc.toggles
    /\ LET w0 == StartEvent(ui, <<"toggle", t>>)
           w1 == On("toggles1", w0, showDocPanel1(w0, t))
           w2 == On("toggles2", w1, showDocPanel(w1, t))
           w3 == On("togglesSito", w2, showDocPanelSito(w2, t))
       IN  ui' = On("dropdown", w3, DocumentClickListener(w3, FALSE))
    /\ UNCHANGED Others

\* click on the dropdown toggle: propagation to document is stopped
DropdownToggleClick ==
    /\ phase = "ready" /\ page \in {"main", "sito"}
    /\ "dropdown" \in wired
    /\ LET w0 == StartEvent(ui, <<"dropdownToggle">>)
           isActive == ~w0.ddOpen
       IN  ui' = [w0 EXCEPT !.prevented = TRUE, !.ddOpen = isActive, !.ddExp = AttrOf(isActive),
                            !.focus = IF isActive /\ dropdownItems # {} THEN "firstItem" ELSE @]
    /\ UNCHANGED Others

\* click somewhere else on the page
OutsideClick ==
    /\ phase = "ready" /\ page \in {"main", "sito"}
    /\ LET w0 == StartEvent(ui, <<"outside">>)
       IN  ui' = On("dropdown", w0, DocumentClickListener(w0, FALSE))
    /\ UNCHANGED Others

\* the user edits the fragment or goes back/forward in the history
Navigate(h) ==
    /\ phase = "ready" /\ page \in {"main", "sito"}
    /\ h # ui.hash
    /\ ui' = [StartEvent(ui, <<"navigate", h>>) EXCEPT !.hash = h, !.hashEvt = TRUE]
    /\ UNCHANGED Others

\* the queued hashchange event is dispatched
HashChange ==
    /\ phase = "ready" /\ ui.hashEvt
    /\ LET w0 == [StartEvent(ui, <<"hashchange">>) EXCEPT !.hashEvt = FALSE]
       IN  ui' = On("hashchange", w0, checkHashOnLoad(w0))
    /\ UNCHANGED Others

----------------------------------------------------------------------------
(* Initial states: the page as parsed, before DOMContentLoaded *)

Hashes == {"", "diapositive", "altro"}

NoStorage == [details |-> Raw("absent", <<>>), theme |-> NULL]

\* atLoad is the 'detailsState' entry DOMContentLoaded found; touched says
\* that the user has toggled a <details> element since then; last is the
\* kind of the last event; peer is a second instance of the page (another
\* tab) on the same localStorage; latest maps each key to the value its
\* most recent toggle in either instance set; savedBefore says that the
\* previous visit of the page ended with the state of its sections saved
DetInit(d) ==
    [ open |-> [i \in 1..Len(d.details) |-> FALSE], timers |-> {}, evts |-> {},
      atLoad |-> Raw("absent", <<>>), touched |-> FALSE, last |-> "parse",
      peer |-> [open |-> [i \in 1..Len(d.details) |-> FALSE], evts |-> {}],
      latest |-> <<>>, savedBefore |-> FALSE ]

TemaInit == [dark |-> FALSE, icon |-> "luna", btnDark |-> FALSE]

TornaInit == [display |-> "none", visible |-> FALSE, timers |-> <<>>, threw |-> FALSE]

FoldMarkup(d, e, h, x, g) ==
    [ expanded |-> [k \in d.folders.content |-> e],
      hidden   |-> [k \in d.folders.content |-> h],
      hexp     |-> [k \in d.folders.keys |-> x],
      icon     |-> [k \in d.folders.icon |-> g],
      focus    |-> <<"body">>,
      sub      |-> d.children,
      evt |-> <<"parse">>, prevented |-> FALSE, said |-> <<>>, hist |-> <<>> ]

FoldInit(d) == FoldMarkup(d, FALSE, "none", "none", "+")

ThemeInit == [attr |-> NULL, text |-> "", label |-> NULL]

AnnInit == [exists |-> FALSE, text |-> "", timers |-> <<>>]

\* what the previous visit of the page left behind when it was unloaded:
\* the theme it showed and the kind of its last event
NoVisit == [theme |-> NULL, after |-> "none"]

UiInit(d, act, hid, h) ==
    [ active |-> act, hidden |-> hid,
      tActive |-> d.doc.toggles \cap {"candidatura"},
      tSel |-> [t \in d.doc.toggles |-> AttrOf(t = "candidatura")],
      iActive |-> {}, ddOpen |-> FALSE, ddExp |-> "false",
      hash |-> h, hashEvt |-> FALSE, scrollY |-> 0, focus |-> "body",
      unloaded |-> NoVisit,
      mainLive |-> FALSE, mainTab |-> "none", mainTimers |-> 0,
      evt |-> <<"parse">>, calls |-> <<>>, scrolls |-> <<>>, prevented |-> FALSE ]

Dom(doc, markup, details, folders) ==
    [ doc |-> doc, markupActive |-> markup, details |-> details, folders |-> folders,
      hasTornaSu |-> TRUE, hasTema |-> TRUE, hasTemaIcon |-> TRUE, hasThemeToggle |-> TRUE,
      hasMain |-> TRUE, hasBackToTop |-> TRUE,
      prefersDark |-> FALSE, children |-> <<>> ]

\* the main site and SITO: any layout, any markup of the panels
InitDoc ==
    /\ page \in {"main", "sito"}
    /\ phase = "loading"
    /\ \E doc \in DocLayouts : \E act \in {S \in SUBSET doc.panels : Cardinality(S) <= 1 \/ S = doc.panels} :
          dom = Dom(doc, act, <<"verbali", "norme">>, CHOOSE f \in FolderLayouts : f.keys = {"orfana"})
    /\ \E a \in {"true", "false"}, h \in Hashes :
          ui = UiInit(dom, dom.markupActive, [p \in dom.doc.panels |-> a], h)
    /\ wired = {} /\ thrown = FALSE /\ job = NoJob
    /\ storage = NoStorage
    /\ det = DetInit(dom) /\ tema = TemaInit /\ torna = TornaInit
    /\ fold = FoldInit(dom) /\ ann = AnnInit /\ theme = ThemeInit

NextDoc ==
    \/ LoadMain
    \/ LoadSito
    \/ \E l \in dom.doc.links : LinkClick(l)
    \/ \E t \in dom.doc.toggles : ToggleClick(t)
    \/ DropdownToggleClick
    \/ OutsideClick
    \/ \E h \in Hashes : Navigate(h)
    \/ HashChange

SpecDoc == InitDoc /\ [][NextDoc]_vars

----------------------------------------------------------------------------
(* Properties of the doc panels *)

\* the last event invoked showDocPanel; LastName is the name of its last call
Shown == ui.calls # <<>>
LastName == ui.calls[Len(ui.calls)]

\* the page provides the panels the running script names literally
PanelsProvided ==
    /\ "panel-candidatura" \in dom.doc.panels
    /\ page = "sito" => "panel-diapositive" \in dom.doc.panels

\* C1: after showDocPanel(name), whatever the name (known, unknown or
\* missing), exactly one panel has class 'active'; that panel has
\* aria-hidden 'false' and every other panel has aria-hidden 'true'
C1_ExactlyOneActive ==
    (Shown /\ PanelsProvided) =>
        /\ Cardinality(ui.active) = 1
        /\ \A p \in dom.doc.panels : ui.hidden[p] = (IF p \in ui.active THEN "false" ELSE "true")

\* showDocPanel ran with an unknown name on a page whose markup had
\* several active panels, and left only the default panel active
C1_Witness ==
    /\ Shown /\ PanelsProvided /\ LastName = "altro"
    /\ Cardinality(dom.markupActive) > 1
    /\ ui.active = {"panel-candidatura"}

\* C2: when the markup has at most one active panel, at most one panel is
\* active in every state reachable by clicks, load and hashchange events
C2_AtMostOneActive ==
    Cardinality(dom.markupActive) <= 1 => Cardinality(ui.active) <= 1

\* a hashchange switched the panel of a page whose markup showed another one
C2_Witness ==
    /\ dom.markupActive = {"panel-candidatura"}
    /\ ui.evt = <<"hashchange">> /\ Shown
    /\ ui.active = {"panel-diapositive"}

\* C3: showDocPanel(name) activates the panel of name when it exists and
\* the default panel 'candidatura' when no panel matches name
C3_SelectsNamedPanel ==
    (Shown /\ PanelsProvided) =>
        ui.active = IF PanelId(LastName) \in dom.doc.panels THEN {PanelId(LastName)}
                    ELSE {"panel-candidatura"}

\* C4: after showDocPanel(name) a doc toggle has class 'active' and
\* aria-selected 'true' iff its data-show equals name
C4_TogglesFollowName ==
    Shown => \A t \in dom.doc.toggles :
                /\ (t \in ui.tActive) <=> (t = LastName)
                /\ ui.tSel[t] = AttrOf(t = LastName)

----------------------------------------------------------------------------
(* Accessible site: folder sections and screen-reader announcer *)

\* glyphs of the toggle icon: '+' collapsed, the minus sign expanded
Plus == "+"
Minus == "-"

\* announceToScreenReader on s = [f |-> folders, a |-> announcer]: the
\* announcer is created when missing, cleared, and a timer sets the message
announceToScreenReader(s, message) ==
    [s EXCEPT !.a = [exists |-> TRUE, text |-> "", timers |-> Append(s.a.timers, message)],
              !.f.said = Append(@, message)]

\* setCollapsedState without the guard on the content region
setCollapsedStateUnguarded(s, k, collapsed) ==
    LET s1 == [s EXCEPT !.f.hexp[k] = AttrOf(~collapsed)]
    IN  announceToScreenReader(s1, <<k, IF collapsed THEN "collassata" ELSE "espansa">>)

\* setCollapsedState that leaves aria-hidden as it is when expanding
setCollapsedStateStaleHidden(s, k, collapsed) ==
    IF k \notin dom.folders.content THEN s
    ELSE LET f1 == [s.f EXCEPT !.expanded[k] = ~collapsed,
                               !.hidden[k] = IF collapsed THEN "true" ELSE @,
                               !.hexp[k] = AttrOf(~collapsed)]
             f2 == IF k \in dom.folders.icon
                   THEN [f1 EXCEPT !.icon[k] = IF collapsed THEN Plus ELSE Minus] ELSE f1
         IN  announceToScreenReader([s EXCEPT !.f = f2],
                                    <<k, IF collapsed THEN "collassata" ELSE "espansa">>)

\* setCollapsedState(header, collapsed); k is the data-folder key of header
setCollapsedState(s, k, collapsed) ==
    IF k \notin dom.folders.content THEN s
    ELSE LET f1 == [s.f EXCEPT !.expanded[k] = ~collapsed,
                               !.hidden[k] = AttrOf(collapsed),
                               !.hexp[k] = AttrOf(~collapsed)]
             f2 == IF k \in dom.folders.icon
                   THEN [f1 EXCEPT !.icon[k] = IF collapsed THEN Plus ELSE Minus] ELSE f1
         IN  announceToScreenReader([s EXCEPT !.f = f2],
                                    <<k, IF collapsed THEN "collassata" ELSE "espansa">>)

\* toggleHeader that always expands
toggleHeaderExpandOnly(s, k) ==
    IF k \notin dom.folders.content THEN s ELSE setCollapsedState(s, k, FALSE)

\* toggleHeader(header)
toggleHeader(s, k) ==
    IF k \notin dom.folders.content THEN s
    ELSE LET isExpanded == s.f.expanded[k]
         IN  setCollapsedState(s, k, isExpanded)

\* the ARIA attributes the header loop adds when the markup lacks them
EnsureAria(f) ==
    [f EXCEPT !.hexp   = [k \in DOMAIN @ |-> IF @[k] = "none" THEN "false" ELSE @[k]],
              !.hidden = [k \in DOMAIN @ |-> IF @[k] = "none" THEN "true" ELSE @[k]]]

\* folderHeaders.forEach(header => setCollapsedState(header, true))
RECURSIVE CollapseAll(_, _)
\* an initialization that collapses only the first header
CollapseAllFirstOnly(s, order) ==
    IF order = <<>> THEN s ELSE setCollapsedState(s, Head(order), TRUE)

CollapseAll(s, order) ==
    IF order = <<>> THEN s
    ELSE CollapseAll(setCollapsedState(s, Head(order), TRUE), Tail(order))

\* updateThemeToggleText
updateThemeToggleText(t, th) ==
    IF dom.hasThemeToggle
    THEN [t EXCEPT !.text  = IF th = "light" THEN "Tema Scuro" ELSE "Tema Chiaro",
                   !.label = IF th = "light" THEN "Attiva tema scuro" ELSE "Attiva tema chiaro"]
    ELSE t

\* mirrored state of a folder section
Snap(f, k) ==
    [ expanded |-> f.expanded[k], hidden |-> f.hidden[k], hexp |-> f.hexp[k],
      icon |-> IF k \in dom.folders.icon THEN f.icon[k] ELSE "none" ]

\* record of the consecutive toggleHeader runs on one section: the state of
\* the section before each of the last two
Remember(f, k) ==
    LET now == [k |-> k, pre |-> Snap(f, k)]
    IN  IF f.hist # <<>> /\ f.hist[1].k = k
        THEN <<f.hist[Len(f.hist)], now>>
        ELSE <<now>>

StartFold(e) == [fold EXCEPT !.evt = e, !.prevented = FALSE, !.said = <<>>, !.hist = <<>>]

AccOthers == <<page, job, phase, dom, ui, wired, thrown, storage, det, tema, torna>>

----------------------------------------------------------------------------
(* sortSubfoldersDesc of the accessible site *)

\* largest number of children of a container
MaxChildren == 3

\* a text is a sequence of characters; the characters of the headings
Digits == {"0", "1", "2"}
DigitValue(c) == IF c = "0" THEN 0 ELSE IF c = "1" THEN 1 ELSE 2

\* String.prototype.trim
RECURSIVE TrimStart(_)
TrimStart(t) == IF t # <<>> /\ Head(t) = " " THEN TrimStart(Tail(t)) ELSE t

RECURSIVE TrimEnd(_)
TrimEnd(t) ==
    IF t # <<>> /\ t[Len(t)] = " " THEN TrimEnd(SubSeq(t, 1, Len(t) - 1)) ELSE t

trim(t) == TrimEnd(TrimStart(t))

\* primary collation weights: space before digits before letters, a letter
\* and its capital having the same weight (sensitivity 'base')
SpaceWeight == 1
NumberWeight == 2
LetterWeight(c) ==
    CASE c \in {"a", "A"} -> 11 [] c \in {"b", "B"} -> 12 [] c \in {"e", "E"} -> 15
      [] c \in {"l", "L"} -> 22 [] c \in {"r", "R"} -> 28 [] c \in {"v", "V"} -> 32

\* a collation key that takes every digit as an element of its own
\* (numeric: false)
RECURSIVE CollationKeyPlain(_, _)
CollationKeyPlain(t, acc) ==
    IF t = <<>> THEN acc
    ELSE LET c == Head(t)
         IN  IF c \in Digits
             THEN CollationKeyPlain(Tail(t), Append(acc, [w |-> NumberWeight, n |-> DigitValue(c)]))
             ELSE CollationKeyPlain(Tail(t),
                      Append(acc, [w |-> IF c = " " THEN SpaceWeight ELSE LetterWeight(c), n |-> 0]))

\* collation key of a text with { numeric: true, sensitivity: 'base' },
\* appended to acc: one element per character, a run of digits being one
\* element with the value of the number
RECURSIVE CollationKey(_, _)
CollationKey(t, acc) ==
    IF t = <<>> THEN acc
    ELSE LET c == Head(t)
             n == Len(acc)
         IN  IF c \in Digits
             THEN IF n > 0 /\ acc[n].w = NumberWeight
                  THEN CollationKey(Tail(t), [acc EXCEPT ![n].n = @ * 10 + DigitValue(c)])
                  ELSE CollationKey(Tail(t), Append(acc, [w |-> NumberWeight, n |-> DigitValue(c)]))
             ELSE CollationKey(Tail(t),
                      Append(acc, [w |-> IF c = " " THEN SpaceWeight ELSE LetterWeight(c), n |-> 0]))

\* comparison of two collation keys: negative, zero or positive
RECURSIVE CompareKeys(_, _)
CompareKeys(x, y) ==
    IF x = <<>> THEN (IF y = <<>> THEN 0 ELSE -1)
    ELSE IF y = <<>> THEN 1
    ELSE IF Head(x).w # Head(y).w THEN (IF Head(x).w < Head(y).w THEN -1 ELSE 1)
    ELSE IF Head(x).n # Head(y).n THEN (IF Head(x).n < Head(y).n THEN -1 ELSE 1)
    ELSE CompareKeys(Tail(x), Tail(y))

\* a.localeCompare(b, undefined, { numeric: true, sensitivity: 'base' })
localeCompare(a, b) == CompareKeys(CollationKey(a, <<>>), CollationKey(b, <<>>))

\* text of the '.folder-header h4' of a child, '' when it has none
HeadingText(item) == IF item.heading THEN item.h ELSE <<>>

\* the comparator passed to items.sort
compareFn(a, b) == localeCompare(trim(HeadingText(b)), trim(HeadingText(a)))

\* Array.prototype.sort is stable: an item goes after the items that do
\* not compare greater than it
RECURSIVE InsertSorted(_, _)
InsertSorted(sorted, x) ==
    IF sorted = <<>> THEN <<x>>
    ELSE IF compareFn(Head(sorted), x) > 0 THEN <<x>> \o sorted
    ELSE <<Head(sorted)>> \o InsertSorted(Tail(sorted), x)

RECURSIVE SortItems(_)
SortItems(items) ==
    IF items = <<>> THEN <<>>
    ELSE InsertSorted(SortItems(SubSeq(items, 1, Len(items) - 1)), items[Len(items)])

\* the children of a container that match ':scope > .subfolder'
Subfolders(children) == SelectSeq(children, LAMBDA c : c.subfolder)

\* sortSubfoldersDesc(containerId) on the children of the containers:
\* appendChild moves each subfolder behind the other children
sortSubfoldersDesc(sub, containerId) ==
    IF containerId \notin DOMAIN sub THEN sub
    ELSE LET items == Subfolders(sub[containerId])
         IN  IF Len(items) = 0 THEN sub
             ELSE [sub EXCEPT ![containerId] =
                       SelectSeq(@, LAMBDA c : ~c.subfolder) \o SortItems(items)]

\* DOMContentLoaded of SITO ACCESSIBILE/script.js
LoadAcc ==
    /\ page = "acc" /\ phase = "loading"
    /\ LET currentTheme == IF Truthy(storage.theme) THEN storage.theme ELSE "light"
           f0 == StartFold(<<"load">>)
           f1 == [f0 EXCEPT !.sub = sortSubfoldersDesc(sortSubfoldersDesc(@, "verbali-interni-content"),
                                                       "verbali-esterni-content")]
           s0 == [f |-> EnsureAria(f1), a |-> ann]
           s1 == CollapseAll(s0, dom.folders.order)
       IN  /\ theme' = updateThemeToggleText([theme EXCEPT !.attr = currentTheme], currentTheme)
           /\ fold' = s1.f
           /\ ann' = s1.a
    /\ wired' = {"headers", "documentKeydown"}
                   \cup (IF dom.hasThemeToggle THEN {"themeToggle"} ELSE {})
                   \cup (IF dom.hasBackToTop THEN {"backToTop"} ELSE {})
    /\ phase' = "ready"
    /\ UNCHANGED <<page, job, dom, ui, thrown, storage, det, tema, torna>>

\* the queue of announcer timers has room for the announcement of an event
AnnRoom == Len(ann.timers) < MaxAnnTimers

\* click on a folder header, or on a link inside it
HeaderClick(k, onLink) ==
    /\ page = "acc" /\ phase = "ready" /\ "headers" \in wired
    /\ k \in dom.folders.keys /\ AnnRoom
    /\ LET f0 == StartFold(<<"click", k, onLink>>)
           s0 == [f |-> IF onLink THEN f0 ELSE [f0 EXCEPT !.focus = <<"header", k>>], a |-> ann]
           s1 == IF onLink THEN s0 ELSE toggleHeader(s0, k)
       IN  /\ fold' = IF ~onLink /\ k \in dom.folders.content
                      THEN [s1.f EXCEPT !.hist = Remember(fold, k)] ELSE s1.f
           /\ ann' = s1.a
    /\ UNCHANGED <<AccOthers, theme>>

Keys == {"Enter", " ", "Escape", "ArrowDown", "a"}

\* a keydown handler whose Escape branch does not test aria-expanded
HeaderKeyEscapeUnguarded(k, key) ==
    /\ page = "acc" /\ phase = "ready" /\ "headers" \in wired
    /\ fold.focus = <<"header", k>> /\ AnnRoom
    /\ LET s0 == [f |-> StartFold(<<"key", k, key>>), a |-> ann]
           open == s0.f.hexp[k] = "true"
           s1 == CASE key \in {"Enter", " "} ->
                        toggleHeader([s0 EXCEPT !.f.prevented = TRUE], k)
                   [] key = "Escape" ->
                        [setCollapsedState(s0, k, TRUE) EXCEPT !.f.focus = <<"header", k>>]
                   [] key = "ArrowDown" /\ open ->
                        [s0 EXCEPT !.f.prevented = TRUE,
                                   !.f.focus = IF k \in dom.folders.content \cap dom.folders.links
                                               THEN <<"link", k>> ELSE @]
                   [] OTHER -> s0
       IN  /\ fold' = IF key \in {"Enter", " "} /\ k \in dom.folders.content
                      THEN [s1.f EXCEPT !.hist = Remember(fold, k)] ELSE s1.f
           /\ ann' = s1.a
    /\ UNCHANGED <<AccOthers, theme>>

\* keydown on the focused folder header
HeaderKey(k, key) ==
    /\ page = "acc" /\ phase = "ready" /\ "headers" \in wired
    /\ fold.focus = <<"header", k>> /\ AnnRoom
    /\ LET s0 == [f |-> StartFold(<<"key", k, key>>), a |-> ann]
           open == s0.f.hexp[k] = "true"
           s1 == CASE key \in {"Enter", " "} ->
                        toggleHeader([s0 EXCEPT !.f.prevented = TRUE], k)
                   [] key = "Escape" /\ open ->
                        [setCollapsedState(s0, k, TRUE) EXCEPT !.f.focus = <<"header", k>>]
                   [] key = "ArrowDown" /\ open ->
                        [s0 EXCEPT !.f.prevented = TRUE,
                                   !.f.focus = IF k \in dom.folders.content \cap dom.folders.links
                                               THEN <<"link", k>> ELSE @]
                   [] OTHER -> s0
       IN  /\ fold' = IF key \in {"Enter", " "} /\ k \in dom.folders.content
                      THEN [s1.f EXCEPT !.hist = Remember(fold, k)] ELSE s1.f
           /\ ann' = s1.a
    /\ UNCHANGED <<AccOthers, theme>>

\* content.querySelectorAll('a, button, [tabindex]:not([tabindex="-1"])'):
\* whether the content region of k has such an element, and the first one
HasInteractive(k) == k \in dom.folders.buttons \cup dom.folders.links
FirstInteractive(k) == IF k \in dom.folders.buttons THEN <<"button", k>> ELSE <<"link", k>>

\* keydown listener on document for the Tab key; dir is "backward" when
\* Shift is held; the target is the focused element. A Tab the listener
\* does not prevent moves the focus to the element the browser picks.
TabKey(dir) ==
    /\ page = "acc" /\ phase = "ready" /\ "documentKeydown" \in wired
    /\ fold.focus[1] \in {"header", "link", "button"}
    /\ LET target == fold.focus
           k  == target[2]
           f0 == StartFold(<<"tab", dir, target[1], k>>)
           onHeader == target[1] = "header"
           forwardInto == /\ onHeader
                          /\ k \in dom.folders.content /\ f0.expanded[k]
                          /\ HasInteractive(k)
           backToHeader == /\ dir = "backward" /\ ~onHeader
                           /\ f0.hexp[k] = "true"
                           /\ FirstInteractive(k) = target
       IN  fold' = IF forwardInto
                   THEN [f0 EXCEPT !.prevented = TRUE, !.focus = FirstInteractive(k)]
                   ELSE IF backToHeader
                   THEN [f0 EXCEPT !.prevented = TRUE, !.focus = <<"header", k>>]
                   ELSE [f0 EXCEPT !.focus = <<"browser", dir>>]
    /\ UNCHANGED <<AccOthers, theme, ann>>

\* the user moves the keyboard focus to a folder header
UserFocus(k) ==
    /\ page = "acc" /\ phase = "ready"
    /\ k \in dom.folders.keys /\ fold.focus # <<"header", k>>
    /\ fold' = [StartFold(<<"focus", k>>) EXCEPT !.focus = <<"header", k>>]
    /\ UNCHANGED <<AccOthers, theme, ann>>

\* the oldest announcer timer fires
AnnTimer ==
    /\ page = "acc" /\ ann.timers # <<>>
    /\ ann' = [ann EXCEPT !.text = Head(ann.timers), !.timers = Tail(@)]
    /\ fold' = [fold EXCEPT !.evt = <<"timer">>, !.prevented = FALSE, !.said = <<>>]
    /\ UNCHANGED <<AccOthers, theme>>

\* localStorage left by earlier visits of the site
VerbaliOpen == Raw("obj", << <<"verbali", "true">> >>)

AccStorages ==
    { NoStorage, [details |-> VerbaliOpen, theme |-> "dark"],
      [NoStorage EXCEPT !.theme = "light"], [NoStorage EXCEPT !.theme = "blu"] }

\* the accessible site: any folder layout, any markup of the sections
InitAcc ==
    /\ page = "acc"
    /\ phase = "loading"
    /\ \E fl \in FolderLayouts : dom = Dom(DocBare, {}, <<>>, fl)
    /\ ui = UiInit(dom, {}, <<>>, "")
    /\ wired = {} /\ thrown = FALSE /\ job = NoJob
    /\ storage \in AccStorages
    /\ det = DetInit(dom) /\ tema = TemaInit /\ torna = TornaInit
    /\ \E e \in BOOLEAN, h \in {"true", "false", "none"}, x \in {"true", "false", "none"},
          g \in {Plus, Minus, ">"} : fold = FoldMarkup(dom, e, h, x, g)
    /\ ann = AnnInit /\ theme = ThemeInit

NextAcc ==
    \/ LoadAcc
    \/ \E k \in dom.folders.keys, onLink \in BOOLEAN : HeaderClick(k, onLink)
    \/ \E k \in dom.folders.keys, key \in Keys : HeaderKey(k, key)
    \/ \E k \in dom.folders.keys : UserFocus(k)
    \/ \E dir \in {"forward", "backward"} : TabKey(dir)
    \/ AnnTimer

SpecAcc == InitAcc /\ [][NextAcc]_vars

----------------------------------------------------------------------------
(* Properties of the folder sections *)

AccReady == page = "acc" /\ phase = "ready"

\* C5: two toggleHeader runs in a row on a section with a content region
\* return its expanded class, aria-hidden, aria-expanded and icon glyph to
\* what they were before the first run
C5_ToggleTwiceRestores ==
    (AccReady /\ Len(fold.hist) = 2) => Snap(fold, fold.hist[1].k) = fold.hist[1].pre

\* a section with an icon was expanded and collapsed again by two toggles
C5_Witness ==
    /\ AccReady /\ Len(fold.hist) = 2
    /\ fold.hist[1].k = "verbali" /\ fold.hist[2].pre.expanded
    /\ ~fold.expanded["verbali"] /\ fold.icon["verbali"] = Plus

\* C6: after initialization every section with a content region is
\* mirrored: class 'expanded' iff aria-hidden 'false' iff aria-expanded
\* 'true' iff the icon (when there is one) shows the minus, else '+'
C6_Mirrored ==
    AccReady => \A k \in dom.folders.content :
        /\ fold.hidden[k] = AttrOf(~fold.expanded[k])
        /\ fold.hexp[k] = AttrOf(fold.expanded[k])
        /\ k \in dom.folders.icon => fold.icon[k] = (IF fold.expanded[k] THEN Minus ELSE Plus)

\* Enter expanded a section whose markup was not mirrored
C6_Witness ==
    /\ AccReady /\ fold.evt = <<"key", "verbali", "Enter">>
    /\ fold.expanded["verbali"] /\ fold.icon["verbali"] = Minus
    /\ fold.hidden["verbali"] = "false"

\* an event on a header whose content region is missing: click, Enter,
\* Space or Escape
OnOrphan(e) ==
    /\ e[1] \in {"click", "key"}
    /\ e[2] \notin dom.folders.content
    /\ e[1] = "key" => e[3] \in {"Enter", " ", "Escape"}

\* what a step may do to a section without content region: the header
\* loop of the initialization defaults a missing aria-expanded to 'false'
Untouched(k) ==
    /\ fold'.hexp[k] = (IF fold'.evt = <<"load">> /\ fold.hexp[k] = "none" THEN "false"
                        ELSE fold.hexp[k])
    /\ k \in dom.folders.icon => fold'.icon[k] = fold.icon[k]
    /\ \A n \in 1..Len(fold'.said) : fold'.said[n][1] # k

\* C7: toggleHeader and setCollapsedState on a header without content
\* region change no class, ARIA attribute or icon of any section and
\* announce nothing, in the bulk collapse of the initialization as well
C7_OrphanNoOp ==
    [][ /\ \A k \in dom.folders.keys \ dom.folders.content : Untouched(k)
        /\ OnOrphan(fold'.evt) =>
              /\ fold'.expanded = fold.expanded /\ fold'.hidden = fold.hidden
              /\ fold'.hexp = fold.hexp /\ fold'.icon = fold.icon
              /\ ann' = ann /\ fold'.said = <<>> ]_vars

\* Escape was pressed on a header without content whose markup says expanded
C7_Witness ==
    /\ AccReady /\ fold.evt = <<"key", "orfana", "Escape">>
    /\ fold.hexp["orfana"] = "true"

----------------------------------------------------------------------------
(* Events on the <details> elements of the main site *)

DetOthers == <<page, job, phase, dom, ui, wired, thrown, tema, torna, fold, ann, theme>>

\* a restore timer that fires without opening its element
RestoreTimerDropped(i) ==
    /\ page = "main" /\ phase = "ready"
    /\ i \in det.timers
    /\ det' = [det EXCEPT !.timers = @ \ {i}, !.last = "timer"]
    /\ UNCHANGED <<DetOthers, storage>>

\* a timer set by restoreDetailsState fires: details.open = true; the
\* browser queues a toggle event when the element was closed
RestoreTimer(i) ==
    /\ page = "main" /\ phase = "ready"
    /\ i \in det.timers
    /\ det' = [det EXCEPT !.timers = @ \ {i}, !.open[i] = TRUE, !.last = "timer",
                          !.evts = IF det.open[i] THEN @ ELSE @ \cup {i}]
    /\ UNCHANGED <<DetOthers, storage>>

\* the user opens or closes a <details> element
UserToggle(i) ==
    /\ page = "main" /\ phase = "ready"
    /\ i \in 1..Len(dom.details)
    /\ det' = [det EXCEPT !.open[i] = ~@, !.evts = @ \cup {i}, !.touched = TRUE, !.last = "user",
                          !.latest = IF Truthy(dom.details[i])
                                     THEN SetProp(@, dom.details[i], AttrOf(~det.open[i])) ELSE @]
    /\ UNCHANGED <<DetOthers, storage>>

\* the user opens or closes a <details> element in the other tab
PeerToggle(i) ==
    /\ page = "main" /\ phase = "ready"
    /\ i \in 1..Len(dom.details)
    /\ det' = [det EXCEPT !.peer.open[i] = ~@, !.peer.evts = @ \cup {i}, !.last = "peer",
                          !.latest = IF Truthy(dom.details[i])
                                     THEN SetProp(@, dom.details[i], AttrOf(~det.peer.open[i])) ELSE @]
    /\ UNCHANGED <<DetOthers, storage>>

\* a queued toggle event of the other tab is dispatched: its
\* saveDetailsState writes the mapping of its own <details> elements
PeerToggleEvent(i) ==
    /\ page = "main" /\ phase = "ready"
    /\ i \in det.peer.evts
    /\ det' = [det EXCEPT !.peer.evts = @ \ {i}, !.last = "peerToggle"]
    /\ storage' = IF "detailsToggle" \in wired
                  THEN [storage EXCEPT !.details = saveDetailsState(det.peer.open)]
                  ELSE storage
    /\ UNCHANGED DetOthers

\* a queued toggle event is dispatched: saveDetailsState when it is wired
ToggleEvent(i) ==
    /\ page = "main" /\ phase = "ready"
    /\ i \in det.evts
    /\ det' = [det EXCEPT !.evts = @ \ {i}, !.last = "toggle"]
    /\ storage' = IF "detailsToggle" \in wired
                  THEN [storage EXCEPT !.details = saveDetailsState(det.open)]
                  ELSE storage
    /\ UNCHANGED DetOthers

\* values of the 'detailsState' entry at load
DetailsStorages ==
    { Raw("absent", <<>>), Raw("empty", <<>>), Raw("invalid", <<>>), Raw("null", <<>>),
      Raw("num", <<>>), VerbaliOpen,
      Raw("obj", << <<"verbali", "false">>, <<"norme", "true">> >>),
      Raw("obj", << <<"verbali", "si">>, <<"altra", "true">> >>) }

\* the main site: any <details> layout, any stored 'detailsState'
InitDetails ==
    /\ page = "main"
    /\ phase = "loading"
    /\ \E dl \in DetailsLayouts : dom = Dom(DocBare, {}, dl, CHOOSE f \in FolderLayouts : f.keys = {"orfana"})
    /\ ui = UiInit(dom, {}, <<>>, "")
    /\ wired = {} /\ thrown = FALSE /\ job = NoJob
    /\ \E raw \in DetailsStorages : storage = [NoStorage EXCEPT !.details = raw]
    /\ det = DetInit(dom) /\ tema = TemaInit /\ torna = TornaInit
    /\ fold = FoldInit(dom) /\ ann = AnnInit /\ theme = ThemeInit

NextDetails ==
    \/ LoadMain
    \/ \E i \in 1..Len(dom.details) : RestoreTimer(i)
    \/ \E i \in 1..Len(dom.details) : UserToggle(i)
    \/ \E i \in 1..Len(dom.details) : ToggleEvent(i)

SpecDetails == InitDetails /\ [][NextDetails]_vars

\* both sites that keep expansion state, with the timers of the restore
\* firing eventually
InitRestore == InitDetails \/ InitAcc

NextRestore == NextDetails \/ NextAcc

SpecRestore ==
    /\ InitRestore /\ [][NextRestore]_vars
    /\ WF_vars(\E i \in 1..Len(dom.details) : RestoreTimer(i))

----------------------------------------------------------------------------
(* Properties of the persisted expansion state *)

MainReady == page = "main" /\ phase = "ready"

\* the entry of key k in a stored 'detailsState' value is true
StoredTrue(raw, k) == raw.kind = "obj" /\ Lookup(raw.pairs, k) = "true"

DetailIndexes == 1..3

\* <details> element i has a key whose entry was true at load
Restorable(i) ==
    /\ MainReady /\ i \in KeyedDetails
    /\ StoredTrue(det.atLoad, dom.details[i])

IsOpen(i) == MainReady /\ i \in DOMAIN det.open /\ det.open[i]

C9_ChangePersisted ==
    /\ (AccReady /\ fold.hist # <<>>) =>
          LET k == fold.hist[1].k
          IN  /\ storage.details.kind = "obj"
              /\ Lookup(storage.details.pairs, k) = AttrOf(fold.expanded[k])
    /\ (MainReady /\ det.last = "toggle" /\ det.evts = {}) =>
          \A i \in KeyedDetails :
              /\ storage.details.kind = "obj"
              /\ Lookup(storage.details.pairs, dom.details[i]) = AttrOf(det.open[i])

\* a stored 'detailsState' value that is not a mapping from key to boolean
Malformed(raw) == raw.kind \in {"invalid", "null", "num"}

\* C10: with a malformed 'detailsState' entry, initialization throws
\* nothing, restores no section and completes the later steps: toggle-save
\* wiring, "torna su" wiring, theme wiring
C10_MalformedIgnored ==
    (MainReady /\ Malformed(det.atLoad)) =>
        /\ ~thrown
        /\ det.timers = {}
        /\ WiredAfterRestore \subseteq wired

----------------------------------------------------------------------------
(* Properties of the link and hash handling *)

\* the last event was a click on a link whose fragment resolves to an element
LinkHit == ui.evt[1] = "link" /\ getElementById(ui.evt[2].href)
HitLink == ui.evt[2]

\* the last event scrolled to the element its fragment names
TargetScrolled == \E i \in 1..Len(ui.scrolls) : ui.scrolls[i].kind = "target"

RtbLinkHit ==
    /\ LinkHit /\ HitLink.href = "rtb" /\ HitLink.doc = "rtb"
    /\ "panel-rtb" \in dom.doc.panels /\ dom.doc.hasTitle

\* C12: a click on the link '#rtb' with document-name 'rtb' never scrolls to
\* the element 'rtb'; the 'rtb' panel becomes the active panel and the
\* viewport is scrolled to the panel title
C12_RtbLinkSwitchesPanel ==
    RtbLinkHit =>
        /\ ~TargetScrolled
        /\ ui.active = {"panel-rtb"}
        /\ ui.scrolls # <<>>
        /\ ui.scrolls[Len(ui.scrolls)].kind = "title"
        /\ ui.scrollY = ui.scrolls[Len(ui.scrolls)].y

\* the main script just finished loading a page whose fragment is a known
\* panel name for which the page has the panel and the toggle
LoadedWithKnownHash ==
    /\ page = "main" /\ ui.evt = <<"load">>
    /\ ui.hash \in KnownHashes
    /\ PanelId(ui.hash) \in dom.doc.panels /\ ui.hash \in dom.doc.toggles

\* C13: when the page is loaded with a fragment equal to a known panel
\* name, after load that panel is the only active panel and the toggle
\* whose data-show equals the name has aria-selected 'true'
C13_HashSelectsPanel ==
    LoadedWithKnownHash =>
        /\ ui.active = {PanelId(ui.hash)}
        /\ ui.hidden[PanelId(ui.hash)] = "false"
        /\ ui.hash \in ui.tActive
        /\ ui.tSel[ui.hash] = "true"

\* the page was loaded with fragment 'diapositive' while its markup showed
\* the 'candidatura' panel, and the 'diapositive' panel is now active
C13_Witness ==
    /\ LoadedWithKnownHash /\ ui.hash = "diapositive"
    /\ dom.markupActive = {"panel-candidatura"}
    /\ ui.active = {"panel-diapositive"} /\ ui.tSel["diapositive"] = "true"

\* C14: every hashchange event of the main script re-resolves the fragment
\* as at load: showDocPanel(fragment) is invoked iff the fragment is a known
\* panel name, and for an empty or unknown fragment the active panel, the
\* toggle selection, the scroll position and the focus are left unchanged
C14_HashChangeResolves ==
    [][ (page = "main" /\ ui.hashEvt /\ ui'.evt = <<"hashchange">>) =>
            IF ui'.hash \in KnownHashes
            THEN ui'.calls = <<ui'.hash>>
            ELSE /\ ui'.calls = <<>>
                 /\ ui'.active = ui.active /\ ui'.hidden = ui.hidden
                 /\ ui'.tActive = ui.tActive /\ ui'.tSel = ui.tSel
                 /\ ui'.scrollY = ui.scrollY /\ ui'.focus = ui.focus ]_vars

\* a hashchange to an unknown fragment arrived while the 'diapositive' panel
\* was shown and the title focused, and nothing was switched
C14_Witness ==
    /\ page = "main" /\ ui.evt = <<"hashchange">> /\ ui.hash = "altro"
    /\ ui.calls = <<>>
    /\ ui.active = {"panel-diapositive"} /\ ui.focus = "docTitle"

----------------------------------------------------------------------------
(* Theme of the main script and of the accessible site *)

\* a theme click of the accessible site that does not store the new theme
ThemeClickListenerNoSave(s) ==
    LET currentTheme == s.t.attr
        newTheme == IF currentTheme = "light" THEN "dark" ELSE "light"
        s1 == [s EXCEPT !.t = updateThemeToggleText([s.t EXCEPT !.attr = newTheme], newTheme)]
    IN  announceToScreenReader(s1, <<"tema", IF newTheme = "dark" THEN "scura" ELSE "chiara">>)

\* click listener of #theme-toggle of the accessible site, on
\* s = [f |-> folders, a |-> announcer, t |-> theme, st |-> localStorage]
ThemeClickListener(s) ==
    LET currentTheme == s.t.attr
        newTheme == IF currentTheme = "light" THEN "dark" ELSE "light"
        s1 == [s EXCEPT !.t = updateThemeToggleText([s.t EXCEPT !.attr = newTheme], newTheme),
                        !.st.theme = newTheme]
    IN  announceToScreenReader(s1, <<"tema", IF newTheme = "dark" THEN "scura" ELSE "chiara">>)

\* click on #theme-toggle
ThemeToggleClick ==
    /\ page = "acc" /\ phase = "ready" /\ "themeToggle" \in wired /\ AnnRoom
    /\ LET s == ThemeClickListener([f |-> StartFold(<<"themeClick">>), a |-> ann,
                                    t |-> theme, st |-> storage])
       IN  /\ fold' = [s.f EXCEPT !.focus = <<"themeToggle">>]
           /\ ann' = s.a /\ theme' = s.t /\ storage' = s.st
    /\ UNCHANGED <<page, job, phase, dom, ui, wired, thrown, det, tema, torna>>

ThemeKeys == {"Enter", " ", "a"}

\* keydown on the focused #theme-toggle: Enter and Space click it
ThemeToggleKey(key) ==
    /\ page = "acc" /\ phase = "ready" /\ "themeToggle" \in wired /\ AnnRoom
    /\ fold.focus = <<"themeToggle">>
    /\ LET s0 == [f |-> StartFold(<<"themeKey", key>>), a |-> ann, t |-> theme, st |-> storage]
           s  == IF key \in {"Enter", " "}
                 THEN ThemeClickListener([s0 EXCEPT !.f.prevented = TRUE]) ELSE s0
       IN  /\ fold' = s.f /\ ann' = s.a /\ theme' = s.t /\ storage' = s.st
    /\ UNCHANGED <<page, job, phase, dom, ui, wired, thrown, det, tema, torna>>

\* the user moves the keyboard focus to #theme-toggle
ThemeToggleFocus ==
    /\ page = "acc" /\ phase = "ready" /\ dom.hasThemeToggle
    /\ fold.focus # <<"themeToggle">>
    /\ fold' = [StartFold(<<"focusTheme">>) EXCEPT !.focus = <<"themeToggle">>]
    /\ UNCHANGED <<AccOthers, theme, ann>>

\* a click on #temaToggleBtn that also stores the new theme
TemaClickSaves ==
    /\ page = "main" /\ phase = "ready" /\ dom.hasTema
    /\ LET w0 == StartEvent(ui, <<"tema">>)
       IN  ui' = On("dropdown", w0, DocumentClickListener(w0, FALSE))
    /\ tema' = IF "tema" \in wired THEN cambiaTema(tema) ELSE tema
    /\ storage' = IF "tema" \in wired
                  THEN [storage EXCEPT !.theme = IF tema.dark THEN "light" ELSE "dark"]
                  ELSE storage
    /\ UNCHANGED <<page, job, phase, dom, wired, thrown, det, torna, fold, ann, theme>>

\* click on #temaToggleBtn of the main site; the click also reaches the
\* document listener that closes the dropdown
TemaClick ==
    /\ page = "main" /\ phase = "ready" /\ dom.hasTema
    /\ LET w0 == StartEvent(ui, <<"tema">>)
       IN  ui' = On("dropdown", w0, DocumentClickListener(w0, FALSE))
    /\ tema' = IF "tema" \in wired THEN cambiaTema(tema) ELSE tema
    /\ UNCHANGED <<page, job, phase, dom, wired, thrown, storage, det, torna, fold, ann, theme>>

\* the theme the page shows: class 'dark-theme' of <body> on the main site,
\* attribute data-theme of <html> on the accessible site
ThemeNow == IF page = "main" THEN (IF tema.dark THEN "dark" ELSE "light") ELSE theme.attr

\* kind of the last event of the page
LastKind == IF page = "acc" THEN fold.evt[1] ELSE ui.evt[1]

\* the page is reloaded: the document is parsed again from the markup,
\* pending timers are dropped, localStorage stays
Reload ==
    /\ phase = "ready"
    /\ phase' = "loading"
    /\ ui' = [UiInit(dom, {}, <<>>, "") EXCEPT
                 !.unloaded = [theme |-> ThemeNow, after |-> LastKind]]
    /\ wired' = {} /\ thrown' = FALSE
    /\ det' = [DetInit(dom) EXCEPT
                  !.savedBefore = /\ page = "main" /\ det.evts = {}
                                  /\ storage.details = saveDetailsState(det.open)]
    /\ tema' = TemaInit /\ torna' = TornaInit
    /\ fold' = FoldInit(dom) /\ ann' = AnnInit /\ theme' = ThemeInit
    /\ UNCHANGED <<page, job, dom, storage>>

\* stored 'theme' entries: none, empty, the two themes, a foreign value
StoredThemes == {NULL, "", "light", "dark", "blu"}

\* either site, any stored theme, any colour-scheme preference of the
\* system; on the main site the 'detailsState' entry may be invalid
InitTheme ==
    /\ page \in {"main", "acc"}
    /\ phase = "loading"
    /\ \E pd \in BOOLEAN :
          dom = [Dom(DocBare, {}, <<"verbali">>, CHOOSE f \in FolderLayouts : f.keys = {"orfana"})
                    EXCEPT !.prefersDark = pd]
    /\ ui = UiInit(dom, {}, <<>>, "")
    /\ wired = {} /\ thrown = FALSE /\ job = NoJob
    /\ \E th \in StoredThemes, raw \in {Raw("absent", <<>>), Raw("invalid", <<>>)} :
          /\ page = "acc" => raw.kind = "absent"
          /\ storage = [details |-> raw, theme |-> th]
    /\ det = DetInit(dom) /\ tema = TemaInit /\ torna = TornaInit
    /\ fold = FoldInit(dom) /\ ann = AnnInit /\ theme = ThemeInit

NextTheme ==
    \/ LoadMain
    \/ LoadAcc
    \/ TemaClick
    \/ ThemeToggleClick
    \/ \E key \in ThemeKeys : ThemeToggleKey(key)
    \/ ThemeToggleFocus
    \/ AnnTimer
    \/ Reload

SpecTheme == InitTheme /\ [][NextTheme]_vars

----------------------------------------------------------------------------
(* Properties of the theme *)

\* the last step was a click on the theme control (or Enter/Space on it)
\* of a page whose control is wired
ThemeClicked ==
    \/ page = "main" /\ "tema" \in wired /\ ui'.evt = <<"tema">>
    \/ page = "acc" /\ fold'.evt = <<"themeClick">>
    \/ page = "acc" /\ fold'.evt \in {<<"themeKey", "Enter">>, <<"themeKey", " ">>}

\* C15: in every state from initialization on the theme is 'light' or 'dark',
\* whatever the stored or prior value, and each click on the theme toggle
\* changes it to the other of the two values
C15_TwoThemes ==
    [][ /\ phase' = "ready" => ThemeNow' \in {"light", "dark"}
        /\ ThemeClicked => (ThemeNow' \in {"light", "dark"} /\ ThemeNow' # ThemeNow) ]_vars

\* the main script just finished a DOMContentLoaded handler
MainLoaded == page = "main" /\ phase = "ready" /\ ui.evt = <<"load">>

AccLoaded == AccReady /\ fold.evt = <<"load">>

----------------------------------------------------------------------------
(* Sorted subfolders *)

Verbale == <<"V", "e", "r", "b", "a", "l", "e">>
Verbale1  == Verbale \o <<" ", "1">>
Verbale2  == Verbale \o <<" ", "2">>
Verbale10 == Verbale \o <<" ", "1", "0">>

\* heading texts of the subfolders: the three of the listing and one that
\* differs from 'Verbale 1' in case, padding and a leading zero only
Headings ==
    { Verbale1, Verbale2, Verbale10,
      <<" ", "v", "e", "r", "b", "a", "l", "e", " ", "0", "1", " ">> }

\* kinds of children of a container: subfolders with a heading, a
\* subfolder without '.folder-header h4', and an element of another class
ChildKinds ==
    {[subfolder |-> TRUE, heading |-> TRUE, h |-> h] : h \in Headings}
        \cup {[subfolder |-> TRUE, heading |-> FALSE, h |-> <<>>],
              [subfolder |-> FALSE, heading |-> FALSE, h |-> <<>>]}

\* a child is its kind and its position in the markup
Children(kinds) ==
    [i \in 1..Len(kinds) |-> [id |-> i, subfolder |-> kinds[i].subfolder,
                               heading |-> kinds[i].heading, h |-> kinds[i].h]]

RECURSIVE SeqsUpTo(_, _)
SeqsUpTo(S, n) ==
    IF n = 0 THEN {<<>>}
    ELSE LET shorter == SeqsUpTo(S, n - 1)
         IN  shorter \cup {Append(q, x) : q \in shorter, x \in S}

\* the accessible site with a listing in 'verbali-interni-content'; the
\* container 'verbali-esterni-content' may be missing
InitSort ==
    /\ page = "acc"
    /\ phase = "loading"
    /\ \E kinds \in SeqsUpTo(ChildKinds, MaxChildren), both \in BOOLEAN :
          dom = [Dom(DocBare, {}, <<>>, CHOOSE f \in FolderLayouts : f.keys = {"orfana"})
                    EXCEPT !.children =
                        [c \in {"verbali-interni-content"}
                               \cup (IF both THEN {"verbali-esterni-content"} ELSE {})
                           |-> IF c = "verbali-interni-content" THEN Children(kinds)
                               ELSE Children(<<[subfolder |-> TRUE, heading |-> TRUE, h |-> Verbale1],
                                               [subfolder |-> TRUE, heading |-> TRUE, h |-> Verbale2]>>)]]
    /\ ui = UiInit(dom, {}, <<>>, "")
    /\ wired = {} /\ thrown = FALSE /\ job = NoJob
    /\ storage = NoStorage
    /\ det = DetInit(dom) /\ tema = TemaInit /\ torna = TornaInit
    /\ fold = FoldInit(dom) /\ ann = AnnInit /\ theme = ThemeInit

NextSort ==
    \/ LoadAcc
    \/ Reload

SpecSort == InitSort /\ [][NextSort]_vars

\* the headings of a sequence of children
HeadingsOf(items) == [i \in 1..Len(items) |-> items[i].h]

\* descending under the numeric-aware comparison of the trimmed headings
Descending(items) ==
    \A i, j \in 1..Len(items) :
        i < j => localeCompare(trim(HeadingText(items[i])), trim(HeadingText(items[j]))) >= 0

\* C18: after initialization the subfolder children of a container are in
\* descending numeric-aware order of their headings ('Verbale 2',
\* 'Verbale 10', 'Verbale 1' become 'Verbale 10', 'Verbale 2', 'Verbale 1'),
\* they are a permutation of the subfolders of the markup, and subfolders
\* with equal headings keep their relative order
C18_SortedDescending ==
    AccReady => \A c \in DOMAIN dom.children :
        LET before == Subfolders(dom.children[c])
            after  == Subfolders(fold.sub[c])
        IN  /\ Descending(after)
            /\ Len(after) = Len(before)
            /\ {after[i] : i \in 1..Len(after)} = {before[i] : i \in 1..Len(before)}
            /\ \A i, j \in 1..Len(after) :
                  (i < j /\ compareFn(after[i], after[j]) = 0) => after[i].id < after[j].id
            /\ HeadingsOf(before) = <<Verbale2, Verbale10, Verbale1>>
                  => HeadingsOf(after) = <<Verbale10, Verbale2, Verbale1>>

\* the listing 'Verbale 2', 'Verbale 10', 'Verbale 1' has been sorted
C18_Witness ==
    /\ AccReady /\ "verbali-interni-content" \in DOMAIN dom.children
    /\ HeadingsOf(dom.children["verbali-interni-content"]) = <<Verbale2, Verbale10, Verbale1>>
    /\ HeadingsOf(fold.sub["verbali-interni-content"]) = <<Verbale10, Verbale2, Verbale1>>

----------------------------------------------------------------------------
(* Properties of the keyboard handling of the folder headers *)

\* the step is a keydown of key on the header of a section with content
KeyOn(key) ==
    /\ page = "acc" /\ Len(fold'.evt) = 3
    /\ fold'.evt[1] = "key" /\ fold'.evt[3] = key
    /\ fold'.evt[2] \in dom.folders.content

\* C19: Escape on the header of an expanded section collapses it, with
\* every mirrored attribute, and leaves the focus on its header; Escape on
\* the header of a collapsed section changes nothing and announces nothing
C19_EscapeCollapses ==
    [][ KeyOn("Escape") =>
          LET k == fold'.evt[2]
          IN  IF fold.expanded[k]
              THEN /\ ~fold'.expanded[k]
                   /\ fold'.hidden[k] = "true" /\ fold'.hexp[k] = "false"
                   /\ k \in dom.folders.icon => fold'.icon[k] = Plus
                   /\ fold'.focus = <<"header", k>>
              ELSE /\ \A x \in dom.folders.content : Snap(fold', x) = Snap(fold, x)
                   /\ fold'.focus = fold.focus
                   /\ fold'.said = <<>> /\ ann' = ann ]_vars

\* Escape collapsed the expanded section 'verbali' and announced it, the
\* focus being on its header
C19_Witness ==
    /\ AccReady /\ fold.evt = <<"key", "verbali", "Escape">>
    /\ fold.said = << <<"verbali", "collassata">> >>
    /\ ~fold.expanded["verbali"] /\ fold.icon["verbali"] = Plus
    /\ fold.focus = <<"header", "verbali">>

\* C20: ArrowDown on the header of an expanded section moves the focus to
\* the first interactive descendant of its content region (link, button or
\* other focusable element, whichever comes first); on a collapsed section
\* it moves no focus and suppresses nothing
C20_ArrowDownFirstInteractive ==
    [][ KeyOn("ArrowDown") =>
          LET k == fold'.evt[2]
          IN  IF fold.expanded[k]
              THEN fold'.focus = (IF HasInteractive(k) THEN FirstInteractive(k) ELSE fold.focus)
              ELSE fold'.focus = fold.focus /\ ~fold'.prevented ]_vars

\* the step is a Tab keydown in direction dir on an element of kind what
TabOn(dir, what) ==
    /\ page = "acc" /\ fold'.evt[1] = "tab"
    /\ fold'.evt[2] = dir /\ fold'.evt[3] \in what

\* the section of the Tab target is expanded and has a focusable descendant
TabSectionOpen ==
    LET k == fold'.evt[4]
    IN  k \in dom.folders.content /\ fold.expanded[k] /\ HasInteractive(k)

\* C21: Tab redirects the focus only at the boundary of an expanded
\* section: forward Tab on its header goes to the first focusable
\* descendant, Shift+Tab on that descendant goes back to the header, and
\* Shift+Tab on the header is never redirected into the content
C21_TabBoundaryOnly ==
    [][ LET k == fold'.evt[4]
        IN  /\ (TabOn("forward", {"header"}) /\ TabSectionOpen)
                  => fold'.focus = FirstInteractive(k)
            /\ (TabOn("backward", {"link", "button"}) /\ TabSectionOpen
                   /\ fold.focus = FirstInteractive(k))
                  => fold'.focus = <<"header", k>>
            /\ TabOn("backward", {"header"})
                  => (~fold'.prevented /\ fold'.focus[1] \notin {"link", "button"}) ]_vars

----------------------------------------------------------------------------
(* "Torna su" button of the main script: scroll events and timers *)

\* largest number of pending timers of the button
MaxTornaTimers == 4

\* scroll positions the user reaches
ScrollPositions == {0, 200, 400}

TornaOthers == <<page, job, phase, dom, wired, thrown, storage, det, tema, fold, ann, theme>>

\* scroll event of window
Scroll(y) ==
    /\ page = "main" /\ phase = "ready"
    /\ y # ui.scrollY
    /\ Len(torna.timers) < MaxTornaTimers
    /\ ui' = [StartEvent(ui, <<"scroll", y>>) EXCEPT !.scrollY = y]
    /\ torna' = IF "tornaSu" \in wired THEN mostraTornaSuBtn(torna, y) ELSE torna
    /\ UNCHANGED TornaOthers

\* click on the displayed button: scrollToTop, and the scroll event that
\* ends the scrolling
TornaSuClick ==
    /\ page = "main" /\ phase = "ready" /\ "tornaSu" \in wired
    /\ torna.display = "flex"
    /\ Len(torna.timers) < MaxTornaTimers
    /\ LET w0 == StartEvent(ui, <<"tornaSuClick">>)
       IN  ui' = [On("dropdown", w0, DocumentClickListener(w0, FALSE)) EXCEPT !.scrollY = 0]
    /\ torna' = IF ui.scrollY # 0 THEN mostraTornaSuBtn(torna, 0) ELSE torna
    /\ UNCHANGED TornaOthers

\* the pending timers that can be the next to fire: timers of one delay
\* fire in the order they were set, and a 10ms timer fires before every
\* 300ms timer set after it; a 300ms timer may still be pending when a
\* later 10ms timer fires
Eligible(timers) ==
    {i \in 1..Len(timers) :
        \/ i = 1
        \/ timers[i] = "show" /\ \A j \in 1..(i - 1) : timers[j] = "hide"}

RemoveAt(q, i) == SubSeq(q, 1, i - 1) \o SubSeq(q, i + 1, Len(q))

\* a timer of mostraTornaSuBtn fires
TornaTimer(i) ==
    /\ page = "main" /\ phase = "ready"
    /\ i \in Eligible(torna.timers)
    /\ torna' = [torna EXCEPT
                    !.timers  = RemoveAt(@, i),
                    !.visible = IF torna.timers[i] = "show" THEN TRUE ELSE @,
                    !.display = IF torna.timers[i] = "hide" /\ ~torna.visible THEN "none" ELSE @]
    /\ ui' = StartEvent(ui, <<"tornaTimer", torna.timers[i]>>)
    /\ UNCHANGED TornaOthers

InitTorna ==
    /\ page = "main"
    /\ phase = "loading"
    /\ dom = Dom(DocBare, {}, <<>>, CHOOSE f \in FolderLayouts : f.keys = {"orfana"})
    /\ ui = UiInit(dom, {}, <<>>, "")
    /\ wired = {} /\ thrown = FALSE /\ job = NoJob
    /\ storage = NoStorage
    /\ det = DetInit(dom) /\ tema = TemaInit /\ torna = TornaInit
    /\ fold = FoldInit(dom) /\ ann = AnnInit /\ theme = ThemeInit

NextTorna ==
    \/ LoadMain
    \/ \E y \in ScrollPositions : Scroll(y)
    \/ TornaSuClick
    \/ \E i \in 1..MaxTornaTimers : TornaTimer(i)

SpecTorna == InitTorna /\ [][NextTorna]_vars

\* C23: once all pending timers of the scroll-to-top control have fired, it
\* is shown (display 'flex' and class 'visible') iff the last scroll
\* position was above 300px; it is not left with class 'visible' while its
\* display is 'none', nor displayed while the page is at the top
C23_TornaSuSettles ==
    (page = "main" /\ phase = "ready" /\ "tornaSu" \in wired /\ torna.timers = <<>>) =>
        /\ (torna.display = "flex" /\ torna.visible) <=> (ui.scrollY > TornaSuThreshold)
        /\ ~(torna.visible /\ torna.display = "none")
        /\ ~(torna.display = "flex" /\ ui.scrollY = 0)

----------------------------------------------------------------------------
(* Scroll and focus of showDocPanel *)

\* distance the claim puts between the viewport top and the title
TitleOffset ==
    (IF dom.doc.hasHeader THEN dom.doc.headerH ELSE FallbackHeaderHeight) + TitlePadding

\* the step is an event of the main script that called showDocPanel
ShowStep == page = "main" /\ ui'.calls # <<>>

\* without the title element a showDocPanel step neither scrolls nor moves
\* the focus
NoTitleNoMove ==
    ui'.scrolls = <<>> /\ ui'.scrollY = ui.scrollY /\ ui'.focus = ui.focus

\* C24 as stated: after showDocPanel the title's top is exactly (header
\* height + 12) pixels below the viewport top (110 for a missing header)
\* and the title has the focus; without title element nothing scrolls and
\* the focus does not change
C24_TitleBelowHeader ==
    [][ ShowStep =>
          IF dom.doc.hasTitle
          THEN dom.doc.titleY - ui'.scrollY = TitleOffset /\ ui'.focus = "docTitle"
          ELSE NoTitleNoMove ]_vars

\* C24: after showDocPanel the viewport is at the title position minus
\* (header height + 12), 110 standing for a missing header, limited to the
\* scrollable range of the page, and the title has the focus; without title
\* element nothing scrolls and the focus does not change
C24_TitleBelowHeaderInRange ==
    [][ ShowStep =>
          IF dom.doc.hasTitle
          THEN /\ ui'.scrollY = Clamp(dom.doc.titleY - TitleOffset)
               /\ ui'.scrollY \in 1..(dom.doc.maxScroll - 1)
                     => dom.doc.titleY - ui'.scrollY = TitleOffset
               /\ ui'.focus = "docTitle"
          ELSE NoTitleNoMove ]_vars

\* showDocPanel put the title 92 pixels below the viewport top, under a
\* header of 80 pixels, and focused it
C24_Witness ==
    /\ page = "main" /\ Shown /\ dom.doc.hasTitle
    /\ dom.doc.hasHeader /\ dom.doc.headerH = 80
    /\ dom.doc.titleY - ui.scrollY = 92 /\ ui.focus = "docTitle"

----------------------------------------------------------------------------
(* Selected toggle against active panel; dropdown state against its ARIA *)

\* C28: in every state reached after a showDocPanel call a doc toggle has
\* aria-selected 'true' iff its data-show names the active panel, also
\* when the requested name was unknown and the default panel was activated
C28_SelectedToggleIsActivePanel ==
    Shown => \A t \in dom.doc.toggles :
                (ui.tSel[t] = "true") <=> (PanelId(t) \in ui.active)

\* C29: after any sequence of dropdown-toggle clicks, dropdown-item clicks
\* and clicks outside the dropdown, the dropdown toggle has aria-expanded
\* 'true' iff the dropdown has class 'active'
C29_ExpandedIffOpen ==
    (ui.ddExp = "true") <=> ui.ddOpen

----------------------------------------------------------------------------
(* Freshness of the screen-reader announcements *)

\* C30: announcements are never stale: once a newer change has been made
\* (its timer is pending) the announcer shows no message of an older
\* change, and when the last pending timer has fired the text is the
\* message of the most recent change
C30_NeverStale ==
    [][ /\ ann'.timers # <<>> => ann'.text = ""
        /\ (ann.timers # <<>> /\ ann'.timers = <<>>) =>
               ann'.text = ann.timers[Len(ann.timers)] ]_vars

----------------------------------------------------------------------------
(* Pages that lack optional nodes *)

\* pending timers of the back-to-top link a state may hold
MaxBackTimers == 2

\* click on .back-to-top of the accessible site: focus #main-content,
\* scroll to the top, and remove the tabindex a second later
BackToTopClick ==
    /\ page = "acc" /\ phase = "ready" /\ "backToTop" \in wired
    /\ ui.mainTimers < MaxBackTimers
    /\ fold' = [StartFold(<<"backToTop">>) EXCEPT
                   !.prevented = TRUE,
                   !.focus = IF dom.hasMain THEN <<"main">> ELSE @]
    /\ ui' = IF dom.hasMain
             THEN [ui EXCEPT !.mainTab = "-1", !.scrollY = 0, !.mainTimers = @ + 1]
             ELSE ui
    /\ UNCHANGED <<page, job, phase, dom, wired, thrown, storage, det, tema, torna, ann, theme>>

\* a timer of the back-to-top listener fires
MainTabTimer ==
    /\ page = "acc" /\ ui.mainTimers > 0
    /\ ui' = [ui EXCEPT !.mainTab = "none", !.mainTimers = @ - 1]
    /\ fold' = [fold EXCEPT !.evt = <<"mainTimer">>, !.prevented = FALSE, !.said = <<>>]
    /\ UNCHANGED <<page, job, phase, dom, wired, thrown, storage, det, tema, torna, ann, theme>>

\* doc part of a page that has or lacks the dropdown, the doc toggles, the
\* doc panels, the panel title and the page header
NodesDoc(dd, tg, pn, ti, hd) ==
    [ panels  |-> IF pn THEN {"panel-candidatura", "panel-diapositive"} ELSE {},
      toggles |-> IF tg THEN {"candidatura", "diapositive"} ELSE {},
      links   |-> {Link("candidatura", NULL, FALSE), Link("candidatura", "diapositive", FALSE)}
                     \cup (IF dd THEN {Link("candidatura", "candidatura", TRUE)} ELSE {}),
      ids     |-> {"candidatura"},
      hasTitle |-> ti, hasHeader |-> hd, hasDropdown |-> dd,
      titleY |-> 640, headerH |-> IF hd THEN 80 ELSE 0, maxScroll |-> 2000 ]

\* any of the three sites, with any subset of the optional nodes its script
\* looks up; bt is the scroll-to-top control, th the theme control
InitNodes ==
    /\ page \in {"main", "sito", "acc"}
    /\ phase = "loading"
    /\ \E dd, tg, pn, ti, hd, mn, bt, th \in BOOLEAN : \E fl \in FolderLayouts :
          /\ page = "sito" => ti /\ hd /\ bt /\ th
          /\ page = "acc" => dd /\ tg /\ pn /\ ti /\ hd
          /\ page # "acc" => fl.keys = {"orfana"}
          /\ dom = [Dom(NodesDoc(dd, tg, pn, ti, hd),
                        IF pn THEN {"panel-candidatura"} ELSE {}, <<"verbali">>, fl)
                       EXCEPT !.hasTornaSu = bt, !.hasBackToTop = bt,
                              !.hasTema = th, !.hasTemaIcon = th, !.hasThemeToggle = th,
                              !.hasMain = mn]
    /\ ui = UiInit(dom, dom.markupActive,
                   [p \in dom.doc.panels |-> AttrOf(p \notin dom.markupActive)], "")
    /\ wired = {} /\ thrown = FALSE /\ job = NoJob
    /\ storage = NoStorage
    /\ det = DetInit(dom) /\ tema = TemaInit /\ torna = TornaInit
    /\ fold = FoldInit(dom) /\ ann = AnnInit /\ theme = ThemeInit

NextNodes ==
    \/ LoadMain
    \/ LoadSito
    \/ LoadAcc
    \/ \E l \in dom.doc.links : LinkClick(l)
    \/ \E t \in dom.doc.toggles : ToggleClick(t)
    \/ DropdownToggleClick
    \/ OutsideClick
    \/ TemaClick
    \/ \E k \in dom.folders.keys, onLink \in BOOLEAN : HeaderClick(k, onLink)
    \/ \E k \in dom.folders.keys, key \in Keys : HeaderKey(k, key)
    \/ ThemeToggleClick
    \/ BackToTopClick
    \/ MainTabTimer
    \/ AnnTimer

SpecNodes == InitNodes /\ [][NextNodes]_vars

\* the registrations whose nodes the page has
PresentFeatures ==
    IF page = "main"
    THEN {"anchors1", "toggles1", "anchors2", "toggles2", "hashchange", "detailsToggle"}
            \cup (IF dom.doc.hasDropdown THEN {"items", "dropdown"} ELSE {})
            \cup (IF dom.hasTornaSu THEN {"tornaSu"} ELSE {})
            \cup (IF dom.hasTema THEN {"tema"} ELSE {})
    ELSE IF page = "sito"
    THEN {"anchorsSito", "togglesSito"}
            \cup (IF dom.doc.hasDropdown THEN {"itemsSito", "dropdown"} ELSE {})
    ELSE {"headers", "documentKeydown"}
            \cup (IF dom.hasThemeToggle THEN {"themeToggle"} ELSE {})
            \cup (IF dom.hasBackToTop THEN {"backToTop"} ELSE {})

\* the last event had the effect of its feature
FeatureWorked ==
    /\ (page # "acc" /\ ui.evt[1] = "toggle") => Shown
    /\ (page # "acc" /\ ui.evt[1] = "link" /\ Truthy(ui.evt[2].doc)) => Shown
    /\ (page # "acc" /\ ui.evt = <<"dropdownToggle">>) => (ui.ddOpen <=> ui.ddExp = "true")
    /\ (page = "main" /\ dom.hasTema) => (tema.btnDark <=> tema.dark)
    /\ (page = "acc" /\ fold.evt[1] = "click" /\ ~fold.evt[3] /\ fold.evt[2] \in dom.folders.content)
          => fold.said # <<>>
    /\ (page = "acc" /\ fold.evt = <<"backToTop">> /\ dom.hasMain) => fold.focus = <<"main">>
    /\ (page = "acc" /\ fold.evt = <<"themeClick">>) => theme.attr = storage.theme

\* C22: whatever subset of the optional nodes is absent, initialization
\* completes without throwing, exactly the features whose nodes are present
\* are wired and they work, and no later event throws
C22_AbsentNodesOnlyDisable ==
    phase = "ready" =>
        /\ ~thrown /\ ~torna.threw
        /\ wired = PresentFeatures
        /\ ui.mainLive = (page # "acc" /\ dom.hasMain)
        /\ FeatureWorked

\* on a main page without dropdown, panel title and scroll-to-top control
\* a doc toggle was clicked and showDocPanel ran
C22_Witness ==
    /\ page = "main" /\ phase = "ready"
    /\ ~dom.doc.hasDropdown /\ ~dom.doc.hasTitle /\ ~dom.hasTornaSu /\ ~dom.hasMain
    /\ ui.evt[1] = "toggle" /\ Shown
    /\ ui.active = {PanelId(LastName)}

----------------------------------------------------------------------------
(* The manual deploy script assets/deploy-ghpages.ps1 *)

\* steps of one run that may fail
MaxFailures == 1

\* the website variables, which no repository script touches
Site == <<page, phase, dom, ui, wired, thrown, storage, det, tema, torna, fold, ann, theme>>

\* no page is loaded
NoSite ==
    /\ page = "none" /\ phase = "loading"
    /\ dom = Dom(DocBare, {}, <<>>, CHOOSE f \in FolderLayouts : f.keys = {"orfana"})
    /\ ui = UiInit(dom, {}, <<>>, "")
    /\ wired = {} /\ thrown = FALSE
    /\ storage = NoStorage
    /\ det = DetInit(dom) /\ tema = TemaInit /\ torna = TornaInit
    /\ fold = FoldInit(dom) /\ ann = AnnInit /\ theme = ThemeInit

\* the directories of the foreach loop, in its order
DeployDirs == <<"CANDIDATURA", "DIARIO DI BORDO", "GLOSSARIO", "assets">>

\* the git commands of the try block, in order
GitSteps == <<"init", "add", "commit", "branch", "remote", "push">>

\* outcomes of a step that can fail: a cmdlet error is reported and the
\* script goes on (no $ErrorActionPreference = 'Stop'); a failing git
\* command only sets its exit code
Outcomes(j) == IF j.fails < MaxFailures THEN BOOLEAN ELSE {TRUE}

Failed(j, ok) == IF ok THEN j.fails ELSE j.fails + 1

\* the run is at step pc
At(pc) == job.kind = "deploy" /\ job.pc = pc

\* if (Test-Path $publish) { Remove-Item -Recurse -Force $publish }
DeployWipe ==
    /\ At("wipe")
    /\ \E ok \in Outcomes(job) :
          /\ ~job.folder.exists => ok
          /\ job' = [job EXCEPT !.pc = "mkdir", !.fails = Failed(job, ok),
                                !.folder.exists = @ /\ ~ok,
                                !.wiped = job.folder.exists /\ ok]
    /\ UNCHANGED Site

\* New-Item -ItemType Directory -Path $publish: an error when the path exists
DeployMkdir ==
    /\ At("mkdir")
    /\ \E ok \in Outcomes(job) :
          /\ job.folder.exists => ok
          /\ job' = [job EXCEPT !.pc = "sito", !.fails = Failed(job, ok),
                                !.folder.exists = @ \/ ok,
                                !.created = ~job.folder.exists /\ ok]
    /\ UNCHANGED Site

\* Copy-Item SITO\* into the folder, errors silenced
DeployCopySito ==
    /\ At("sito")
    /\ \E ok \in Outcomes(job) :
          /\ ~(job.env.sito /\ job.folder.exists) => ok
          /\ job' = [job EXCEPT !.pc = "dirs", !.fails = Failed(job, ok),
                                !.folder.copied = IF ok /\ job.env.sito /\ job.folder.exists
                                                  THEN @ \cup {"SITO"} ELSE @]
    /\ UNCHANGED Site

\* one round of the foreach loop: copy the directory when it exists
DeployCopyDir ==
    /\ At("dirs")
    /\ LET f == DeployDirs[job.i]
           next == IF job.i = Len(DeployDirs) THEN "nojekyll" ELSE "dirs"
       IN  \E ok \in Outcomes(job) :
              /\ f \notin job.env.dirs => ok
              /\ job' = [job EXCEPT !.pc = next, !.i = @ + 1, !.fails = Failed(job, ok),
                                    !.folder.copied = IF ok /\ f \in job.env.dirs /\ job.folder.exists
                                                      THEN @ \cup {f} ELSE @]
    /\ UNCHANGED Site

\* New-Item -Path $nojekyll -ItemType File -Force: creates the folder too
DeployNoJekyll ==
    /\ At("nojekyll")
    /\ \E ok \in Outcomes(job) :
          job' = [job EXCEPT !.pc = "origin", !.fails = Failed(job, ok),
                             !.folder.exists = @ \/ ok,
                             !.folder.nojekyll = ok]
    /\ UNCHANGED Site

\* $origin = git -C $root config --get remote.origin.url; exit 1 without it
DeployOrigin ==
    /\ At("origin")
    /\ job' = IF job.env.origin
              THEN [job EXCEPT !.pc = "pushd", !.origin = TRUE]
              ELSE [job EXCEPT !.pc = "done", !.exit = "1",
                               !.out = Append(@, "No git remote origin found")]
    /\ UNCHANGED Site

\* Push-Location $publish
DeployPushLocation ==
    /\ At("pushd")
    /\ job' = [job EXCEPT !.pc = "git", !.g = 1, !.inFolder = job.folder.exists]
    /\ UNCHANGED Site

\* one git command of the try block; 'git push -f' can only succeed with a
\* commit to push: one of this run, or one of the repository a folder that
\* was not wiped still holds
DeployGit ==
    /\ At("git")
    /\ LET cmd == GitSteps[job.g]
           next == IF job.g = Len(GitSteps) THEN "finally" ELSE "git"
       IN  \E ok \in Outcomes(job) :
              /\ (cmd = "push" /\ ok) =>
                     \/ <<"commit", TRUE>> \in job.git
                     \/ job.env.existed /\ ~job.wiped
              /\ job' = [job EXCEPT !.pc = next, !.g = @ + 1, !.fails = Failed(job, ok),
                                    !.git = @ \cup {<<cmd, ok>>},
                                    !.pushed = IF cmd = "push" /\ ok
                                               THEN [folder |-> job.folder, wiped |-> job.wiped,
                                                     created |-> job.created, origin |-> job.origin]
                                               ELSE @]
    /\ UNCHANGED Site

\* finally { Pop-Location }, then the closing message
DeployFinish ==
    /\ At("finally")
    /\ job' = [job EXCEPT !.pc = "done", !.exit = "0", !.inFolder = FALSE,
                          !.out = Append(@, "Deploy finished")]
    /\ UNCHANGED Site

\* what the script finds: whether the publish folder exists, which source
\* directories exist, and whether a remote origin is configured
NotPushed == [folder |-> [exists |-> FALSE, copied |-> {"none"}, nojekyll |-> FALSE],
              wiped |-> FALSE, created |-> FALSE, origin |-> FALSE]

InitDeploy ==
    /\ NoSite
    /\ \E existed, sito, origin \in BOOLEAN :
       \E dirs \in SUBSET {DeployDirs[i] : i \in 1..Len(DeployDirs)} :
          job = [ kind |-> "deploy", pc |-> "wipe", i |-> 1, g |-> 1, fails |-> 0,
                  env |-> [existed |-> existed, sito |-> sito, dirs |-> dirs, origin |-> origin],
                  folder |-> [exists |-> existed, copied |-> {}, nojekyll |-> FALSE],
                  wiped |-> FALSE, created |-> FALSE, origin |-> FALSE, inFolder |-> FALSE,
                  git |-> {}, pushed |-> NotPushed, out |-> <<>>, exit |-> "none" ]

NextDeploy ==
    \/ DeployWipe
    \/ DeployMkdir
    \/ DeployCopySito
    \/ DeployCopyDir
    \/ DeployNoJekyll
    \/ DeployOrigin
    \/ DeployPushLocation
    \/ DeployGit
    \/ DeployFinish

SpecDeploy == InitDeploy /\ [][NextDeploy]_vars

\* the force push has happened; job.pushed is the state of the run at the push
Pushed == <<"push", TRUE>> \in job.git

\* the content the loop and the SITO copy are to put into the folder
Designated == job.env.dirs \cup (IF job.env.sito THEN {"SITO"} ELSE {})

\* C25: the force push to gh-pages happens only after the publish folder
\* has been wiped and recreated, the designated content has been copied
\* into it, the .nojekyll file has been created and a remote origin has
\* been found; without a remote origin the script exits with code 1 and
\* runs no git init, commit or push
C25_PushAfterPreparation ==
    /\ Pushed =>
          /\ job.env.existed => job.pushed.wiped
          /\ job.pushed.created
          /\ job.pushed.folder.copied = Designated
          /\ job.pushed.folder.nojekyll
          /\ job.pushed.origin
    /\ (job.pc = "done" /\ ~job.env.origin) => (job.exit = "1" /\ job.git = {})

----------------------------------------------------------------------------
(* The branch auto-update workflow: step "Update all branches" *)

\* branches of the list the model runs through
NumBranches == 3

AllBranches ==
    << "Diari_di_bordo", "Verifica", "Verbali_sistemato", "norme", "Piano_di_qualifica",
       "analisi_dei_requisiti", "glossario", "Piano_di_progetto", "Aggiunta_documenti_sito",
       "Firme_verbali", "Presentazione_RTB" >>

BRANCHES == SubSeq(AllBranches, 1, NumBranches)

\* the run is at command pc of the round of the loop for BRANCHES[job.i]
InLoop(pc) == job.kind = "workflow" /\ job.pc = pc

\* 'continue', or the end of the loop body: the next branch, or the end
NextBranch(j, result) ==
    [j EXCEPT !.result[j.i] = result,
              !.i = @ + 1,
              !.pc = IF j.i = Len(BRANCHES) THEN "completed" ELSE "ls-remote"]

\* the command is added to the log of the branch
Issue(j, cmd) == [j EXCEPT !.cmds[j.i] = @ \cup {cmd}]

\* if git ls-remote --heads origin "$branch" | grep -q "$branch"
LsRemote ==
    /\ InLoop("ls-remote")
    /\ LET j == [Issue(job, "git ls-remote --heads") EXCEPT !.visits[job.i] = @ + 1]
       IN  \E found \in BOOLEAN :
              job' = IF found THEN [j EXCEPT !.pc = "checkout"]
                     ELSE NextBranch([j EXCEPT !.out = @ \cup {<<job.i, "does not exist remotely">>}],
                                     "missing")
    /\ UNCHANGED Site

\* git checkout "$branch" || { echo ...; continue; }
Checkout ==
    /\ InLoop("checkout")
    /\ LET j == Issue(job, "git checkout")
       IN  \E ok \in BOOLEAN :
              job' = IF ok THEN [j EXCEPT !.pc = "pull", !.head = job.i]
                     ELSE NextBranch([j EXCEPT !.out = @ \cup {<<job.i, "Could not checkout">>}],
                                     "no-checkout")
    /\ UNCHANGED Site

\* git pull origin "$branch" --no-rebase || { echo ...; continue; }
Pull ==
    /\ InLoop("pull")
    /\ LET j == Issue(job, "git pull --no-rebase")
       IN  \E ok \in BOOLEAN :
              job' = IF ok THEN [j EXCEPT !.pc = "merge", !.local[job.i] = job.remote[job.i]]
                     ELSE NextBranch([j EXCEPT !.out = @ \cup {<<job.i, "Could not pull">>}],
                                     "no-pull")
    /\ UNCHANGED Site

\* the branches of 'if git merge origin/main --no-edit' that push whatever
\* the result of the merge
MergeBranchAlwaysPush(j, result) ==
    [j EXCEPT !.pc = "push",
              !.merging = result = "conflict",
              !.local[j.i] = IF result = "ok" THEN @ + 1 ELSE @,
              !.merge[j.i] = result]

\* if git merge origin/main --no-edit; then ... else ... fi: result is
\* "ok", "conflict" (the merge stops with MERGE_HEAD set) or "error" (git
\* refuses to start the merge)
MergeBranch(j, result) ==
    IF result = "ok"
    THEN [j EXCEPT !.pc = "push", !.local[j.i] = @ + 1, !.merge[j.i] = result,
                   !.out = @ \cup {<<j.i, "Successfully merged">>}]
    ELSE [j EXCEPT !.pc = "abort", !.merging = result = "conflict", !.merge[j.i] = result,
                   !.out = @ \cup {<<j.i, "Merge conflict detected">>}]

Merge ==
    /\ InLoop("merge")
    /\ \E result \in {"ok", "conflict", "error"} :
          job' = MergeBranch(Issue(job, "git merge origin/main --no-edit"), result)
    /\ UNCHANGED Site

\* if git push origin "$branch"; then ... else ... fi
Push ==
    /\ InLoop("push")
    /\ LET j == Issue(job, "git push")
       IN  \E ok \in BOOLEAN :
              job' = IF ok
                     THEN NextBranch([j EXCEPT !.remote[job.i] = job.local[job.i],
                                               !.out = @ \cup {<<job.i, "Successfully pushed">>}],
                                     "pushed")
                     ELSE NextBranch([j EXCEPT !.out = @ \cup {<<job.i, "Failed to push">>}],
                                     "no-push")
    /\ UNCHANGED Site

\* git merge --abort, the last command of the else branch: it fails when no
\* merge is in progress, and the shell of a run step (bash -e) then exits
MergeAbort ==
    /\ InLoop("abort")
    /\ LET j == Issue(job, "git merge --abort")
       IN  job' = IF job.merging
                  THEN NextBranch([j EXCEPT !.merging = FALSE], "conflict")
                  ELSE [j EXCEPT !.pc = "exited", !.result[job.i] = "abort-failed"]
    /\ UNCHANGED Site

\* echo "Branch update process completed!"
Completed ==
    /\ InLoop("completed")
    /\ job' = [job EXCEPT !.pc = "done", !.out = @ \cup {<<0, "Branch update process completed">>}]
    /\ UNCHANGED Site

\* the job after 'Checkout repository' and 'Configure Git': main is checked
\* out; remote and local count the merges of main a branch holds
InitWorkflow ==
    /\ NoSite
    /\ job = [ kind |-> "workflow", pc |-> "ls-remote", i |-> 1, head |-> 0, merging |-> FALSE,
               remote |-> [b \in 1..Len(BRANCHES) |-> 0],
               local  |-> [b \in 1..Len(BRANCHES) |-> 0],
               merge  |-> [b \in 1..Len(BRANCHES) |-> "none"],
               result |-> [b \in 1..Len(BRANCHES) |-> "pending"],
               visits |-> [b \in 1..Len(BRANCHES) |-> 0],
               cmds   |-> [b \in 1..Len(BRANCHES) |-> {}],
               out    |-> {} ]

NextWorkflow ==
    \/ LsRemote
    \/ Checkout
    \/ Pull
    \/ Merge
    \/ Push
    \/ MergeAbort
    \/ Completed

SpecWorkflow == InitWorkflow /\ [][NextWorkflow]_vars

\* the round of the loop for branch b is over
RoundOver(b) == job.result[b] # "pending"

\* C26: a branch whose merge of origin/main fails with a conflict is never
\* pushed and is left as it was before the run, the merge being aborted;
\* no force push and no hard reset is issued for any branch
C26_ConflictLeavesBranch ==
    \A b \in 1..Len(BRANCHES) :
        /\ job.merge[b] = "conflict" =>
              /\ "git push" \notin job.cmds[b]
              /\ job.remote[b] = 0
              /\ job.local[b] = 0
              /\ RoundOver(b) =>
                     ("git merge --abort" \in job.cmds[b] /\ job.result[b] = "conflict")
        /\ job.cmds[b] \cap {"git push -f", "git push --force", "git reset --hard"} = {}

\* the merge of a branch met a conflict and was aborted, and the run went
\* on to push another branch
C26_Witness ==
    \E b, c \in 1..Len(BRANCHES) :
        /\ job.merge[b] = "conflict" /\ job.result[b] = "conflict"
        /\ job.result[c] = "pushed" /\ job.remote[c] = 1

\* C27: every branch of the list is processed exactly once and the run
\* always reaches 'Branch update process completed': a missing remote
\* branch, a failed checkout, pull or push, a merge conflict or any other
\* merge failure only skips that branch
C27_EveryBranchOnce ==
    /\ job.pc # "exited"
    /\ \A b \in 1..Len(BRANCHES) : job.visits[b] <= 1
    /\ job.pc = "done" =>
          /\ \A b \in 1..Len(BRANCHES) : job.visits[b] = 1
          /\ <<0, "Branch update process completed">> \in job.out

----------------------------------------------------------------------------
(* Frame of a write of the persisted mapping *)

\* keys that occur in stored mappings
StoredKeys == {"verbali", "norme", "altra"}

\* keys of the <details> elements of the current page
PageKeys == {dom.details[i] : i \in KeyedDetails}

\* C31: a write of the persisted expansion mapping changes only the entries
\* of the sections of the current page: an entry stored for a key that
\* does not occur on the page is preserved unchanged
C31_ForeignEntriesKept ==
    [][ (storage'.details # storage.details /\ storage.details.kind = "obj") =>
            /\ storage'.details.kind = "obj"
            /\ \A k \in StoredKeys \ PageKeys :
                  Lookup(storage'.details.pairs, k) = Lookup(storage.details.pairs, k) ]_vars

----------------------------------------------------------------------------
(* Two instances of the page on one localStorage *)

\* two tabs of the main site, whose sections have distinct keys, loaded
\* with no stored mapping
InitTabs ==
    /\ page = "main"
    /\ phase = "loading"
    /\ dom = Dom(DocBare, {}, <<"verbali", "norme">>, CHOOSE f \in FolderLayouts : f.keys = {"orfana"})
    /\ ui = UiInit(dom, {}, <<>>, "")
    /\ wired = {} /\ thrown = FALSE /\ job = NoJob
    /\ storage = NoStorage
    /\ det = DetInit(dom) /\ tema = TemaInit /\ torna = TornaInit
    /\ fold = FoldInit(dom) /\ ann = AnnInit /\ theme = ThemeInit

NextTabs ==
    \/ LoadMain
    \/ \E i \in 1..Len(dom.details) : UserToggle(i)
    \/ \E i \in 1..Len(dom.details) : ToggleEvent(i)
    \/ \E i \in 1..Len(dom.details) : PeerToggle(i)
    \/ \E i \in 1..Len(dom.details) : PeerToggleEvent(i)

SpecTabs == InitTabs /\ [][NextTabs]_vars

\* no toggle event is pending in either tab
TabsQuiet == MainReady /\ det.evts = {} /\ det.peer.evts = {}

\* C32: with two tabs on the same storage no expansion change is lost:
\* after any interleaving of toggles in the two tabs the persisted entry of
\* every toggled section equals the value its most recent toggle set
C32_NoLostChange ==
    TabsQuiet =>
        \A n \in 1..Len(det.latest) :
            /\ storage.details.kind = "obj"
            /\ Lookup(storage.details.pairs, det.latest[n][1]) = det.latest[n][2]

----------------------------------------------------------------------------
(* Save, reload, restore *)

\* the main site with reloads of the page
NextRoundTrip ==
    \/ LoadMain
    \/ \E i \in 1..Len(dom.details) : RestoreTimer(i)
    \/ \E i \in 1..Len(dom.details) : UserToggle(i)
    \/ \E i \in 1..Len(dom.details) : ToggleEvent(i)
    \/ Reload

SpecRoundTrip == InitDetails /\ [][NextRoundTrip]_vars

\* the page was reloaded with the state of its sections saved, and the
\* deferred restore and its toggle events are over; no user action since
RestoredAfterSave ==
    /\ MainReady /\ det.savedBefore
    /\ det.timers = {} /\ det.evts = {} /\ ~det.touched

----------------------------------------------------------------------------
(* Accessible site: all sections collapsed after initialization *)

\* C34: on the accessible site, immediately after initialization every
\* folder section that has a content region is collapsed (class 'expanded'
\* absent, aria-hidden 'true', aria-expanded 'false', icon '+'), whatever
\* the markup or the stored state said
C34_CollapsedAfterInit ==
    (AccReady /\ fold.evt = <<"load">>) =>
        \A k \in dom.folders.content :
            /\ ~fold.expanded[k]
            /\ fold.hidden[k] = "true"
            /\ fold.hexp[k] = "false"
            /\ k \in dom.folders.icon => fold.icon[k] = Plus

\* initialization has collapsed and announced the sections 'verbali' and
\* 'norme' although the stored mapping says that 'verbali' is open
C34_Witness ==
    /\ AccReady /\ fold.evt = <<"load">>
    /\ {"verbali", "norme"} \subseteq dom.folders.content
    /\ StoredTrue(storage.details, "verbali")
    /\ ~fold.expanded["verbali"] /\ ~fold.expanded["norme"]
    /\ Len(fold.said) = 2

----------------------------------------------------------------------------
(* Repeated calls of showDocPanel *)

\* what showDocPanel decides: active panel, toggle selection, highlighted
\* dropdown items and focus target
SameSelection(a, b) ==
    /\ a.active = b.active /\ a.hidden = b.hidden
    /\ a.tActive = b.tActive /\ a.tSel = b.tSel
    /\ a.iActive = b.iActive /\ a.focus = b.focus

\* C35: on the main site showDocPanel is idempotent: after an event that
\* invoked it, one more showDocPanel with the same name changes neither the
\* active panel, the toggle selection, the highlighted dropdown items nor
\* the focus target, and an event whose listeners invoked it several times
\* with one name leaves all of these as one invocation would have
C35_Idempotent ==
    [][(page' = "main" /\ ui'.calls # <<>>) =>
          LET name == ui'.calls[Len(ui'.calls)]
          IN  /\ SameSelection(showDocPanel(ui', name), ui')
              /\ (\A i \in 1..Len(ui'.calls) : ui'.calls[i] = name) =>
                     SameSelection(showDocPanel(StartEvent(ui, ui'.evt), name), ui')]_vars

\* one click on a dropdown item made three listeners invoke showDocPanel
\* with 'rtb', and the panel, the toggle and the item 'rtb' are selected
C35_Witness ==
    /\ page = "main" /\ ui.calls = <<"rtb", "rtb", "rtb">>
    /\ ui.active = {"panel-rtb"} /\ ui.tActive = {"rtb"}
    /\ ui.iActive = {Link("candidatura", "rtb", TRUE)}
    /\ ui.focus = "docTitle"

----------------------------------------------------------------------------
(* Links whose fragment resolves to no element *)

\* C36: a click on a link that carries a document-name but whose href
\* fragment resolves to no element changes nothing: showDocPanel is not
\* invoked, the active panel and the toggle selection stay as they were,
\* and the default navigation of the browser is not suppressed
C36_UnresolvedLinkInert ==
    [][\A l \in dom.doc.links :
          (/\ phase = "ready" /\ ui'.evt[1] = "link" /\ ui'.evt[2] = l
           /\ Truthy(l.doc) /\ ~getElementById(l.href)) =>
              /\ ui'.calls = <<>>
              /\ ui'.active = ui.active /\ ui'.hidden = ui.hidden
              /\ ui'.tActive = ui.tActive /\ ui'.tSel = ui.tSel
              /\ ~ui'.prevented]_vars

----------------------------------------------------------------------------
(* The main site never stores the theme *)

\* C37: on the main site (the always-light variant) no step, and so no
\* initialization and no sequence of theme toggles, changes the stored
\* 'theme' entry
C37_ThemeNeverStored ==
    [][page = "main" => storage'.theme = storage.theme]_vars

\* the main site shows the dark theme after a toggle while the stored
\* 'theme' entry still says 'light'
C37_Witness ==
    /\ page = "main" /\ phase = "ready" /\ "tema" \in wired
    /\ ui.evt = <<"tema">> /\ tema.dark
    /\ storage.theme = "light"

----------------------------------------------------------------------------
(* Outcome of the deploy script *)

Printed(msg) == \E i \in 1..Len(job.out) : job.out[i] = msg

\* C38: the deploy script prints 'Deploy finished' and ends without an
\* error exit only if every git step (init, add, commit, branch rename,
\* remote add, force push) succeeded; if one of them failed, the run ends
\* with 'Deploy failed' and exit code 1 and never prints 'Deploy finished'
C38_FinishedOnlyOnSuccess ==
    job.kind = "deploy" =>
        /\ (Printed("Deploy finished") \/ (job.pc = "done" /\ job.exit = "0")) =>
               \A i \in 1..Len(GitSteps) : <<GitSteps[i], TRUE>> \in job.git
        /\ (\E i \in 1..Len(GitSteps) : <<GitSteps[i], FALSE>> \in job.git) =>
               /\ ~Printed("Deploy finished")
               /\ job.pc = "done" => (job.exit = "1" /\ Printed("Deploy failed"))

====
